---- MODULE Spec2Model ----
(***************************************************************************)
(* A model of the hierarchical to-do list of pcingola/mcp_planning:        *)
(* the Task / TaskList tree of mcp_todo/models.py (positional dotted       *)
(* identifiers, add / delete / update-state, markdown rendering, save and  *)
(* load of the per-identity record) and the tool handlers of               *)
(* mcp_planning/server.py, which load the record, change the tree and      *)
(* write it back.                                                          *)
(*                                                                         *)
(* A Python str that the program takes apart (a task id) is a sequence of  *)
(* one-character strings; a description is opaque and is a TLA+ string.    *)
(* A Task is the record [description, state, subtasks] where subtasks is   *)
(* the sequence held by its TaskList; the parent back-references are the   *)
(* structure itself.  A reference to a Task inside a tree is the path of   *)
(* 1-based positions that leads to it.                                     *)
(***************************************************************************)
EXTENDS Integers, Sequences, FiniteSets, TLC

VARIABLES
  disk,     \* the task_list.json of the identity ("default", "default")
  held,     \* the TaskList the last call worked on, as the call left it
  op,       \* the call that has just returned, "idle" between calls
  arg_id,   \* the task id it was given
  arg_state, \* the state it was given
  ret,      \* what it returned
  before,   \* the TaskList as it was when a method of the library was called
  pc,       \* where each concurrent tool call stands
  local,    \* the TaskList each concurrent tool call holds
  call,     \* the tool and the arguments of each concurrent call
  base,     \* the record when the concurrent calls began
  rounds,   \* how many times concurrent calls began
  fs,       \* the directories and the files below the data directory
  who,      \* the (user_id, session_id) the call was made for
  enumerated \* the names an enumeration of the store returned

vars == <<disk, held, op, arg_id, arg_state, ret, before, pc, local, call, base, rounds,
          fs, who, enumerated>>

callVars == <<disk, held, op, arg_id, arg_state, ret, before>>
concVars == <<pc, local, call, base, rounds>>
storeVars == <<fs, who, enumerated>>

-----------------------------------------------------------------------------
(* Bounds of the model *)

\* the largest number of tasks (at all depths) a tree is grown to
MaxNodes == 3

\* the number of times two concurrent tool calls are started
MaxRounds == 2

\* descriptions the callers pass
Descriptions == {"a", "b"}

\* states the callers of the update_task_state tool pass
UpdateStates == {"PENDING", "COMPLETED"}

\* no state
NoState == ""

-----------------------------------------------------------------------------
(* TaskState, models.py:11-19 *)

TaskState == {"PENDING", "IN_PROGRESS", "COMPLETED", "FAILED"}

\* TaskState.value
StateValue(s) ==
  CASE s = "PENDING" -> "pending"
    [] s = "IN_PROGRESS" -> "in_progress"
    [] s = "COMPLETED" -> "completed"
    [] s = "FAILED" -> "failed"

\* TaskState(value): the member with that value
TaskStateOf(v) == CHOOSE s \in TaskState : StateValue(s) = v

-----------------------------------------------------------------------------
(* Python str and int primitives the identifier code uses *)

Digits == <<"0", "1", "2", "3", "4", "5", "6", "7", "8", "9">>

IsDigit(c) == \E i \in 1..Len(Digits) : Digits[i] = c

DigitVal(c) == (CHOOSE i \in 1..Len(Digits) : Digits[i] = c) - 1

\* str(i) for i >= 0
RECURSIVE Str(_)
Str(i) ==
  IF i < 10 THEN <<Digits[i + 1]>>
  ELSE Str(i \div 10) \o <<Digits[(i % 10) + 1]>>

\* str(i) for any int
StrInt(i) == IF i < 0 THEN <<"-">> \o Str(0 - i) ELSE Str(i)

RECURSIVE DigitsValue(_, _)
DigitsValue(s, acc) ==
  IF s = <<>> THEN acc
  ELSE DigitsValue(Tail(s), acc * 10 + DigitVal(Head(s)))

\* int(s): an optional sign and one or more decimal digits; anything else
\* raises ValueError (ok = FALSE).  Whitespace and underscores, which int()
\* also accepts, are outside the alphabet of the identifiers of TaskIds.
ParseInt(s) ==
  LET signed == s # <<>> /\ Head(s) \in {"-", "+"}
      body == IF signed THEN Tail(s) ELSE s
  IN IF body = <<>> \/ \E i \in 1..Len(body) : ~IsDigit(body[i])
     THEN [ok |-> FALSE, val |-> 0]
     ELSE [ok |-> TRUE,
           val |-> IF signed /\ Head(s) = "-"
                   THEN 0 - DigitsValue(body, 0)
                   ELSE DigitsValue(body, 0)]

\* s.split(".")
RECURSIVE Split(_)
Split(s) ==
  IF s = <<>> THEN << <<>> >>
  ELSE IF Head(s) = "." THEN << <<>> >> \o Split(Tail(s))
  ELSE LET r == Split(Tail(s))
       IN << <<Head(s)>> \o r[1] >> \o Tail(r)

\* ".".join(parts)
RECURSIVE Join(_)
Join(parts) ==
  IF parts = <<>> THEN <<>>
  ELSE IF Len(parts) = 1 THEN parts[1]
  ELSE parts[1] \o <<".">> \o Join(Tail(parts))

\* parts[:-1]
Front(parts) == SubSeq(parts, 1, Len(parts) - 1)

-----------------------------------------------------------------------------
(* Task and TaskList, models.py *)

\* Task(description=..., parent=...) followed by model_post_init: state is
\* PENDING and subtasks is a fresh empty TaskList
NewTask(description) ==
  [description |-> description, state |-> "PENDING", subtasks |-> <<>>]

\* Task.__eq__ that compares the number of the subtasks and not the subtasks
TaskEq_Shallow(self, other) ==
  /\ self.description = other.description
  /\ self.state = other.state
  /\ Len(self.subtasks) = Len(other.subtasks)

\* Task.__eq__: description, state and the subtasks pairwise, parents ignored
RECURSIVE TaskEq(_, _)
TaskEq(self, other) ==
  /\ self.description = other.description
  /\ self.state = other.state
  /\ Len(self.subtasks) = Len(other.subtasks)
  /\ \A i \in 1..Len(self.subtasks) : TaskEq(self.subtasks[i], other.subtasks[i])

\* TaskList.__eq__
TaskListEq(tasks, others) ==
  /\ Len(tasks) = Len(others)
  /\ \A i \in 1..Len(tasks) : TaskEq(tasks[i], others[i])

\* the tasks of the TaskList a path leads to: the roots for the empty path,
\* else the subtasks of the task at that path
RECURSIVE ListAt(_, _)
ListAt(tasks, path) ==
  IF path = <<>> THEN tasks
  ELSE ListAt(tasks[Head(path)].subtasks, Tail(path))

\* the task a non-empty path leads to
NodeAt(tasks, path) == ListAt(tasks, Front(path))[path[Len(path)]]

\* the tree after the list a path leads to has been changed in place
RECURSIVE WithListAt(_, _, _)
WithListAt(tasks, path, new) ==
  IF path = <<>> THEN new
  ELSE [tasks EXCEPT ![Head(path)].subtasks =
          WithListAt(tasks[Head(path)].subtasks, Tail(path), new)]

\* list.pop(index), index 0-based
Pop(list, index) ==
  SubSeq(list, 1, index) \o SubSeq(list, index + 2, Len(list))

\* the first position whose element equals x, as  x in list  and
\* list.remove(x)  and the loop of get_id find it; 0 when there is none
FirstEqual(list, x) ==
  LET m == {i \in 1..Len(list) : TaskEq(list[i], x)}
  IN IF m = {} THEN 0 ELSE CHOOSE i \in m : \A j \in m : i <= j

\* Task.get_id of the task at position pos of list, models.py:41-57
Task_get_id(list, pos, parent_id) ==
  IF list = <<>> THEN <<"1">>
  ELSE LET i == FirstEqual(list, list[pos])
       IN IF i = 0 THEN <<"?">>
          ELSE IF parent_id # <<>> THEN parent_id \o <<".">> \o Str(i)
          ELSE Str(i)

None == [found |-> FALSE, path |-> <<>>]

\* TaskList.get_task_by_id without the lower bound on the index: tasks[-1] is
\* the last task
RECURSIVE TaskList_get_task_by_id_NegativeIndex(_, _)
TaskList_get_task_by_id_NegativeIndex(tasks, task_id) ==
  IF task_id = <<>> \/ tasks = <<>> THEN None
  ELSE LET id_parts == Split(task_id)
           n == ParseInt(id_parts[1])
           index == IF n.ok /\ n.val = 0 THEN Len(tasks) - 1 ELSE n.val - 1
       IN IF ~n.ok THEN None
          ELSE IF index < 0 \/ index >= Len(tasks) THEN None
          ELSE IF Len(id_parts) > 1
          THEN LET r == TaskList_get_task_by_id_NegativeIndex(
                          tasks[index + 1].subtasks, Join(Tail(id_parts)))
               IN IF r.found THEN [found |-> TRUE, path |-> <<index + 1>> \o r.path]
                  ELSE None
          ELSE [found |-> TRUE, path |-> <<index + 1>>]

\* TaskList.get_task_by_id, models.py:163-189; the Task returned is given as
\* its path below the list
RECURSIVE TaskList_get_task_by_id(_, _)
TaskList_get_task_by_id(tasks, task_id) ==
  IF task_id = <<>> \/ tasks = <<>> THEN None
  ELSE LET id_parts == Split(task_id)
           n == ParseInt(id_parts[1])
           index == n.val - 1
       IN IF ~n.ok THEN None
          ELSE IF index < 0 \/ index >= Len(tasks) THEN None
          ELSE IF Len(id_parts) > 1
          THEN LET r == TaskList_get_task_by_id(tasks[index + 1].subtasks,
                                                Join(Tail(id_parts)))
               IN IF r.found THEN [found |-> TRUE, path |-> <<index + 1>> \o r.path]
                  ELSE None
          ELSE [found |-> TRUE, path |-> <<index + 1>>]

\* TaskList.__getitem__ with an int key, models.py:323-334, and
\* Task.__getitem__, models.py:138-149, which hands the key to its subtasks:
\* self.tasks[key - 1], None on IndexError.  A list takes an index from
\* -len(list) on, counting a negative one from the end.
TaskList_getitem(tasks, key) ==
  LET index == key - 1
  IN IF 0 <= index /\ index < Len(tasks)
     THEN [found |-> TRUE, path |-> <<index + 1>>]
     ELSE IF index < 0 /\ Len(tasks) + index >= 0
     THEN [found |-> TRUE, path |-> <<Len(tasks) + index + 1>>]
     ELSE None

\* TaskList.add_task that puts the new task in front of the others
TaskList_add_task_Prepend(tasks, path, description) ==
  WithListAt(tasks, path, <<NewTask(description)>> \o ListAt(tasks, path))

\* TaskList.add_task on the list a path leads to, models.py:157-161
TaskList_add_task(tasks, path, description) ==
  WithListAt(tasks, path, Append(ListAt(tasks, path), NewTask(description)))

\* the state of every task of a list set to one state
RECURSIVE AllInState(_, _)
AllInState(tasks, state) ==
  [i \in 1..Len(tasks) |->
     [tasks[i] EXCEPT !.state = state,
                      !.subtasks = AllInState(tasks[i].subtasks, state)]]

\* TaskList.update_task_state that sets the state of the subtasks as well
TaskList_update_task_state_Cascade(tasks, task_id, state) ==
  LET task == TaskList_get_task_by_id(tasks, task_id)
  IN IF task.found
     THEN LET p == Front(task.path)
              k == task.path[Len(task.path)]
              list == ListAt(tasks, p)
          IN [tasks |-> WithListAt(tasks, p,
                          [list EXCEPT ![k] = AllInState(<<list[k]>>, state)[1]]),
              ret |-> TRUE]
     ELSE [tasks |-> tasks, ret |-> FALSE]

\* TaskList.update_task_state, models.py:191-197
TaskList_update_task_state(tasks, task_id, state) ==
  LET task == TaskList_get_task_by_id(tasks, task_id)
  IN IF task.found
     THEN LET p == Front(task.path)
              k == task.path[Len(task.path)]
          IN [tasks |-> WithListAt(tasks, p,
                          [ListAt(tasks, p) EXCEPT ![k].state = state]),
              ret |-> TRUE]
     ELSE [tasks |-> tasks, ret |-> FALSE]

\* Task.delete cutting the subtasks from the index on (del tasks[index:])
Task_delete_Tail(tasks, path, task_id) ==
  LET n == ParseInt(task_id)
      index == n.val - 1
      subtasks == ListAt(tasks, path)
  IN IF n.ok /\ 0 <= index /\ index < Len(subtasks)
     THEN [tasks |-> WithListAt(tasks, path, SubSeq(subtasks, 1, index)),
           ret |-> TRUE]
     ELSE [tasks |-> tasks, ret |-> FALSE]

\* Task.delete of the task at path, models.py:59-81
Task_delete(tasks, path, task_id) ==
  LET n == ParseInt(task_id)
      index == n.val - 1
      subtasks == ListAt(tasks, path)
  IN IF n.ok /\ 0 <= index /\ index < Len(subtasks)
     THEN [tasks |-> WithListAt(tasks, path, Pop(subtasks, index)), ret |-> TRUE]
     ELSE [tasks |-> tasks, ret |-> FALSE]

\* TaskList.delete taking the number of a root for its 0-based index
TaskList_delete_OffByOne(tasks, task_id) ==
  IF task_id = <<>> \/ tasks = <<>> THEN [tasks |-> tasks, ret |-> FALSE]
  ELSE LET id_parts == Split(task_id)
       IN IF Len(id_parts) > 1
          THEN LET parent_task == TaskList_get_task_by_id(tasks, Join(Front(id_parts)))
               IN IF parent_task.found
                  THEN Task_delete(tasks, parent_task.path, id_parts[Len(id_parts)])
                  ELSE [tasks |-> tasks, ret |-> FALSE]
          ELSE LET n == ParseInt(id_parts[1])
                   index == n.val
               IN IF n.ok /\ 0 <= index /\ index < Len(tasks)
                  THEN [tasks |-> Pop(tasks, index), ret |-> TRUE]
                  ELSE [tasks |-> tasks, ret |-> FALSE]

\* TaskList.delete without the lower bound on the index: pop(-1) takes the
\* last root
TaskList_delete_NegativeIndex(tasks, task_id) ==
  IF task_id = <<>> \/ tasks = <<>> THEN [tasks |-> tasks, ret |-> FALSE]
  ELSE LET id_parts == Split(task_id)
       IN IF Len(id_parts) > 1
          THEN LET parent_task == TaskList_get_task_by_id(tasks, Join(Front(id_parts)))
               IN IF parent_task.found
                  THEN Task_delete(tasks, parent_task.path, id_parts[Len(id_parts)])
                  ELSE [tasks |-> tasks, ret |-> FALSE]
          ELSE LET n == ParseInt(id_parts[1])
                   index == n.val - 1
               IN IF n.ok /\ index = -1
                  THEN [tasks |-> Pop(tasks, Len(tasks) - 1), ret |-> TRUE]
                  ELSE IF n.ok /\ 0 <= index /\ index < Len(tasks)
                  THEN [tasks |-> Pop(tasks, index), ret |-> TRUE]
                  ELSE [tasks |-> tasks, ret |-> FALSE]

\* TaskList.delete, models.py:199-233
TaskList_delete(tasks, task_id) ==
  IF task_id = <<>> \/ tasks = <<>> THEN [tasks |-> tasks, ret |-> FALSE]
  ELSE LET id_parts == Split(task_id)
       IN IF Len(id_parts) > 1
          THEN LET parent_task == TaskList_get_task_by_id(tasks, Join(Front(id_parts)))
               IN IF parent_task.found
                  THEN Task_delete(tasks, parent_task.path, id_parts[Len(id_parts)])
                  ELSE [tasks |-> tasks, ret |-> FALSE]
          ELSE LET n == ParseInt(id_parts[1])
                   index == n.val - 1
               IN IF n.ok /\ 0 <= index /\ index < Len(tasks)
                  THEN [tasks |-> Pop(tasks, index), ret |-> TRUE]
                  ELSE [tasks |-> tasks, ret |-> FALSE]

\* Task.to_markdown, models.py:83-98: the line of the task at position pos
\* of list, then the lines of its subtasks.  A line is the fields of the
\* f-string: the indent (in spaces), the checkbox, the id, the description.
RECURSIVE Task_to_markdown(_, _, _, _)
RECURSIVE SubtasksMarkdown(_, _, _, _)
Task_to_markdown(list, pos, level, parent_id) ==
  LET self == list[pos]
      task_id == Task_get_id(list, pos, parent_id)
  IN << [indent |-> 2 * level,
         checkbox |-> IF self.state = "COMPLETED" THEN "x" ELSE " ",
         id |-> task_id,
         description |-> self.description] >>
     \o SubtasksMarkdown(self.subtasks, 1, level + 1, task_id)

\* the loop left after its first round
SubtasksMarkdown_FirstOnly(list, pos, level, parent_id) ==
  IF pos > Len(list) THEN <<>>
  ELSE Task_to_markdown(list, pos, level, parent_id)

\* the loop  for subtask in self.subtasks.tasks  from position pos on
SubtasksMarkdown(list, pos, level, parent_id) ==
  IF pos > Len(list) THEN <<>>
  ELSE Task_to_markdown(list, pos, level, parent_id)
       \o SubtasksMarkdown(list, pos + 1, level, parent_id)

\* result = "# Task List\n\n", models.py:290: the header and an empty line
MarkdownHeader == << "# Task List", "" >>

\* TaskList.to_markdown that tells of an empty list in a line of its own
TaskList_to_markdown_NoTasksLine(tasks) ==
  IF tasks = <<>>
  THEN << [indent |-> 0, checkbox |-> " ", id |-> <<>>, description |-> "" ] >>
  ELSE SubtasksMarkdown(tasks, 1, 0, <<>>)

\* TaskList.to_markdown, models.py:288-293: the task lines after the header
TaskList_to_markdown(tasks) == SubtasksMarkdown(tasks, 1, 0, <<>>)

\* Task.to_dict / TaskList.to_dict, models.py:100-106 and 295-299
RECURSIVE Task_to_dict(_)
TaskList_to_dict(tasks) ==
  [tasks |-> [i \in 1..Len(tasks) |-> Task_to_dict(tasks[i])]]
Task_to_dict(self) ==
  [description |-> self.description,
   state |-> StateValue(self.state),
   subtasks |-> [tasks |-> [i \in 1..Len(self.subtasks) |->
                              Task_to_dict(self.subtasks[i])]]]

\* create_tasks that does not descend into the subtasks
create_tasks_Flat(task_data_list) ==
  [i \in 1..Len(task_data_list) |->
     [description |-> task_data_list[i].description,
      state |-> TaskStateOf(task_data_list[i].state),
      subtasks |-> <<>>]]

\* task_data.get("subtasks") and task_data["subtasks"].get("tasks"),
\* models.py:277
HasSubtasks(task_data) ==
  /\ "subtasks" \in DOMAIN task_data
  /\ "tasks" \in DOMAIN task_data.subtasks
  /\ task_data.subtasks.tasks # <<>>

\* create_tasks of TaskList.load, models.py:266-280
RECURSIVE create_tasks(_)
create_tasks(task_data_list) ==
  [i \in 1..Len(task_data_list) |->
     [description |-> task_data_list[i].description,
      state |-> TaskStateOf(task_data_list[i].state),
      subtasks |-> IF HasSubtasks(task_data_list[i])
                   THEN create_tasks(task_data_list[i].subtasks.tasks)
                   ELSE <<>>]]

\* whether create_tasks raises: KeyError at task_data["description"] or
\* task_data["state"], ValueError at TaskState(...) of a string that is no
\* state, models.py:269-271
RECURSIVE create_tasks_raises(_)
create_tasks_raises(task_data_list) ==
  \E i \in 1..Len(task_data_list) :
    LET task_data == task_data_list[i]
    IN \/ "description" \notin DOMAIN task_data
       \/ "state" \notin DOMAIN task_data
       \/ task_data.state \notin { StateValue(st) : st \in TaskState }
       \/ /\ HasSubtasks(task_data)
          /\ create_tasks_raises(task_data.subtasks.tasks)

\* the number of tasks of a tree
RECURSIVE NodeCount(_)
RECURSIVE SumCounts(_, _)
NodeCount(tasks) == SumCounts(tasks, 1)
SumCounts(tasks, pos) ==
  IF pos > Len(tasks) THEN 0
  ELSE 1 + NodeCount(tasks[pos].subtasks) + SumCounts(tasks, pos + 1)

-----------------------------------------------------------------------------
(* The durable record, models.py:235-286 *)

\* the record of an identity that has none
NoFile == [kind |-> "absent", data |-> [tasks |-> <<>>]]

\* TaskList.save, models.py:235-249: the whole of the write, the file holding
\* json.dumps(self.to_dict()) when it is closed
TaskList_save(tasks) == [kind |-> "json", data |-> TaskList_to_dict(tasks)]

\* TaskList.load that opens the file without asking whether it exists
TaskList_load_NoExistsCheck(file) ==
  CASE file.kind = "json" /\ "tasks" \notin DOMAIN file.data ->
         [raised |-> FALSE, tasks |-> <<>>]
    [] file.kind = "json" /\ "tasks" \in DOMAIN file.data ->
         IF create_tasks_raises(file.data.tasks)
         THEN [raised |-> TRUE, tasks |-> <<>>]
         ELSE [raised |-> FALSE, tasks |-> create_tasks(file.data.tasks)]
    [] OTHER -> [raised |-> TRUE, tasks |-> <<>>]

\* TaskList.load, models.py:251-286: an empty list when there is no file;
\* json.load raises on a file that holds no complete JSON document; a
\* document without the key "tasks" leaves the new list empty (line 283)
TaskList_load(file) ==
  CASE file.kind = "absent" -> [raised |-> FALSE, tasks |-> <<>>]
    [] file.kind = "json" /\ "tasks" \notin DOMAIN file.data ->
         [raised |-> FALSE, tasks |-> <<>>]
    [] file.kind = "json" /\ "tasks" \in DOMAIN file.data ->
         IF create_tasks_raises(file.data.tasks)
         THEN [raised |-> TRUE, tasks |-> <<>>]
         ELSE [raised |-> FALSE, tasks |-> create_tasks(file.data.tasks)]
    [] OTHER -> [raised |-> TRUE, tasks |-> <<>>]

\* the file after open(file_path, "w") and before the write reaches it
\* (models.py:244): it exists and is empty
Truncated == [kind |-> "truncated", data |-> [tasks |-> <<>>]]

\* the file after a shorter document was written over a longer one that
\* another writer had put there since the open: a document and a tail
Garbage == [kind |-> "garbage", data |-> [tasks |-> <<>>]]

-----------------------------------------------------------------------------
(* The records of the identities below the data directory.  A user id or  *)
(* a session id is a str, a sequence of characters; a path is the sequence *)
(* of the names on it, the data directory being the empty path.            *)

\* the user ids and session ids the callers pass (the HTTP headers user-id
\* and session-id, utils.py:15-40): plain names and ids with the separator
\* of paths in them
UserIds == { <<"a">>, <<"a", "/", "b">> }
SessionIds == { <<"c">>, <<"b", "/", "c">> }

\* no identity
NoOne == <<>>

\* the names pathlib makes of a str joined to a path: the str taken apart at
\* the separators
RECURSIVE PartsFrom(_, _)
PartsFrom(s, name) ==
  LET done == IF name = <<>> THEN <<>> ELSE <<name>>
  IN IF s = <<>> THEN done
     ELSE IF Head(s) = "/" THEN done \o PartsFrom(Tail(s), <<>>)
     ELSE PartsFrom(Tail(s), Append(name, Head(s)))

PathParts(s) == PartsFrom(s, <<>>)

\* DATA_DIR / user_id / session_id, models.py:238-239 and 254,
\* storage.py:20-22
get_user_session_dir(user_id, session_id) ==
  PathParts(user_id) \o PathParts(session_id)

\* DATA_DIR / user_id / session_id / "task_list.json", models.py:243, 254
task_list_path(user_id, session_id) ==
  Append(get_user_session_dir(user_id, session_id), <<"task_list.json">>)

\* Storage.get_task_file_path, storage.py:24-27
get_task_file_path(user_id, session_id) ==
  Append(get_user_session_dir(user_id, session_id), <<"tasks.json">>)

\* the paths of the files of the identities
FilePaths ==
  { task_list_path(u, s) : u \in UserIds, s \in SessionIds }
  \cup { get_task_file_path(u, s) : u \in UserIds, s \in SessionIds }

\* the data directory, made when the configuration is imported
\* (config.py), with nothing in it
NoFiles == [dirs |-> { <<>> }, files |-> [f \in FilePaths |-> NoFile]]

\* mkdir(parents=True, exist_ok=True): the directory and those above it
Mkdir(dirs, path) == dirs \cup { SubSeq(path, 1, k) : k \in 0..Len(path) }

\* Path.exists() of the path of a file
Exists(f, path) == path \in FilePaths /\ f.files[path].kind # "absent"

\* the directory made and the file written: the mkdir and the open, write
\* and close of TaskList.save (models.py:238-247) and of
\* Storage.save_task_list (storage.py:31-36)
WriteFile(f, path, record) ==
  [dirs |-> Mkdir(f.dirs, Front(path)),
   files |-> [f.files EXCEPT ![path] = record]]

-----------------------------------------------------------------------------
(* The tools of server.py, each on the TaskList it has loaded: the list   *)
(* when the tool returns, what it returns, and whether it saved the list   *)

\* what a call returned: whether it raised, the bool, str or Task it returned
Returned(ok, id) == [raised |-> FALSE, ok |-> ok, id |-> id, path |-> <<>>]
Raised == [raised |-> TRUE, ok |-> FALSE, id |-> <<>>, path |-> <<>>]
Found(task) == [raised |-> FALSE, ok |-> task.found, id |-> <<>>, path |-> task.path]

\* add_task, server.py:27-50
add_task(task_list, description) ==
  LET tasks == TaskList_add_task(task_list, <<>>, description)
  IN [tasks |-> tasks, saved |-> TRUE,
      ret |-> Returned(TRUE, Task_get_id(tasks, Len(tasks), <<>>))]

\* add_subtask adding a root when the parent is not found
add_subtask_Fallback(task_list, parent_id, description) ==
  LET parent_task == TaskList_get_task_by_id(task_list, parent_id)
      p == IF parent_task.found THEN parent_task.path ELSE <<>>
      tasks == TaskList_add_task(task_list, p, description)
      subtasks == ListAt(tasks, p)
  IN [tasks |-> tasks, saved |-> TRUE,
      ret |-> Returned(TRUE, Task_get_id(subtasks, Len(subtasks), parent_id))]

\* add_subtask, server.py:53-85
add_subtask(task_list, parent_id, description) ==
  LET parent_task == TaskList_get_task_by_id(task_list, parent_id)
  IN IF ~parent_task.found
     THEN [tasks |-> task_list, saved |-> FALSE, ret |-> Raised]
     ELSE LET tasks == TaskList_add_task(task_list, parent_task.path, description)
              subtasks == ListAt(tasks, parent_task.path)
          IN [tasks |-> tasks, saved |-> TRUE,
              ret |-> Returned(TRUE, Task_get_id(subtasks, Len(subtasks), parent_id))]

\* update_task_state, server.py:88-112
update_task_state(task_list, task_id, state) ==
  LET r == TaskList_update_task_state(task_list, task_id, state)
  IN [tasks |-> r.tasks, saved |-> r.ret, ret |-> Returned(r.ret, <<>>)]

\* the tool update_task_state called with the state as the client sends
\* it, a str: the argument is validated against its annotation,
\* state: TaskState (server.py:87-88), before the body runs; a str that is
\* the value of no member is refused with an error
call_update_task_state(task_list, task_id, state) ==
  IF state \in { StateValue(st) : st \in TaskState }
  THEN update_task_state(task_list, task_id, TaskStateOf(state))
  ELSE [tasks |-> task_list, saved |-> FALSE, ret |-> Raised]

\* delete_task returning without the save
delete_task_NoSave(task_list, task_id) ==
  LET task == TaskList_get_task_by_id(task_list, task_id)
  IN IF ~task.found
     THEN [tasks |-> task_list, saved |-> FALSE, ret |-> Returned(FALSE, <<>>)]
     ELSE LET p == Front(task.path)
              parent == ListAt(task_list, p)
              i == FirstEqual(parent, NodeAt(task_list, task.path))
          IN [tasks |-> WithListAt(task_list, p, Pop(parent, i - 1)),
              saved |-> FALSE, ret |-> Returned(TRUE, <<>>)]

\* delete_task, server.py:115-152.  Every task of a loaded list has its
\* parent set (models.py:269-274), so the tool takes the branch of line 147:
\* parent.tasks.remove(task) removes the first task equal to the one found.
delete_task(task_list, task_id) ==
  LET task == TaskList_get_task_by_id(task_list, task_id)
  IN IF ~task.found
     THEN [tasks |-> task_list, saved |-> FALSE, ret |-> Returned(FALSE, <<>>)]
     ELSE LET p == Front(task.path)
              parent == ListAt(task_list, p)
              i == FirstEqual(parent, NodeAt(task_list, task.path))
          IN IF i # 0
             THEN [tasks |-> WithListAt(task_list, p, Pop(parent, i - 1)),
                   saved |-> TRUE, ret |-> Returned(TRUE, <<>>)]
             ELSE [tasks |-> task_list, saved |-> FALSE, ret |-> Returned(FALSE, <<>>)]

-----------------------------------------------------------------------------
(* Inputs *)

\* the state arguments the clients of the update_task_state tool send: the
\* values of UpdateStates and a str that is the value of no state
\* (tests/integration/test_mcp_server.py:238-241)
UpdateValues == { StateValue(st) : st \in UpdateStates } \cup {"invalid_status"}

\* the task ids the callers pass: ids of every shape a tree of the model can
\* hold, and ids that are empty, non-numeric, zero, negative or out of range
TaskIds ==
  { <<"1">>, <<"2">>, <<"3">>, <<"4">>,
    <<"1", ".", "1">>, <<"1", ".", "2">>, <<"2", ".", "1">>,
    <<"1", ".", "1", ".", "1">>,
    <<>>, <<"0">>, <<"a">>, <<"-", "1">>, <<"0", "1">>,
    <<"1", ".">>, <<".", "1">>, <<"1", ".", "a">>, <<"1", ".", "0">> }

-----------------------------------------------------------------------------
(* The tools called one after the other *)

Init ==
  /\ disk = NoFile
  /\ held = <<>>
  /\ op = "idle"
  /\ arg_id = <<>>
  /\ arg_state = NoState
  /\ ret = Returned(FALSE, <<>>)
  /\ before = <<>>
  /\ pc = <<>>
  /\ local = <<>>
  /\ call = <<>>
  /\ base = NoFile
  /\ rounds = 0
  /\ fs = NoFiles
  /\ who = NoOne
  /\ enumerated = {}

\* a tool from its load to its return, the server waiting for a request: r
\* is what the tool did to the list it loaded
Tool(name, id, state, r) ==
  /\ op = "idle"
  /\ op' = name
  /\ arg_id' = id
  /\ arg_state' = state
  /\ held' = r.tasks
  /\ ret' = r.ret
  /\ disk' = IF r.saved THEN TaskList_save(r.tasks) ELSE disk
  /\ UNCHANGED <<before, concVars, storeVars>>

AddTask ==
  \E description \in Descriptions :
    LET loaded == TaskList_load(disk).tasks
    IN /\ NodeCount(loaded) < MaxNodes
       /\ Tool("add_task", <<>>, NoState, add_task(loaded, description))

AddSubtask ==
  \E parent_id \in TaskIds, description \in Descriptions :
    LET loaded == TaskList_load(disk).tasks
    IN /\ NodeCount(loaded) < MaxNodes
       /\ Tool("add_subtask", parent_id, NoState,
               add_subtask(loaded, parent_id, description))

UpdateTaskState ==
  \E task_id \in TaskIds, state \in UpdateValues :
    Tool("update_task_state", task_id, state,
         call_update_task_state(TaskList_load(disk).tasks, task_id, state))

DeleteTask ==
  \E task_id \in TaskIds :
    Tool("delete_task", task_id, NoState,
         delete_task(TaskList_load(disk).tasks, task_id))

\* get_tasks, server.py:155-170: loads the list and renders it
GetTasks ==
  Tool("get_tasks", <<>>, NoState,
       [tasks |-> TaskList_load(disk).tasks, saved |-> FALSE,
        ret |-> Returned(TRUE, <<>>)])

\* a caller of the library loads the list and calls TaskList.delete on it,
\* without saving (tests/unit/test_task_list.py:169-211)
ListDelete ==
  \E task_id \in TaskIds :
    LET r == TaskList_delete(TaskList_load(disk).tasks, task_id)
    IN Tool("TaskList.delete", task_id, NoState,
            [tasks |-> r.tasks, saved |-> FALSE, ret |-> Returned(r.ret, <<>>)])

\* the call is over and its task_list is gone; the server waits for the next
\* request
Return ==
  /\ op # "idle"
  /\ op' = "idle"
  /\ held' = <<>>
  /\ arg_id' = <<>>
  /\ arg_state' = NoState
  /\ ret' = Returned(FALSE, <<>>)
  /\ who' = NoOne
  /\ enumerated' = {}
  /\ UNCHANGED <<disk, before, concVars, fs>>

Next ==
  \/ Return
  \/ AddTask
  \/ AddSubtask
  \/ UpdateTaskState
  \/ DeleteTask
  \/ GetTasks
  \/ ListDelete

Spec == Init /\ [][Next]_vars

-----------------------------------------------------------------------------
(* The methods of TaskList, each called once on a list of any shape *)

\* the lists of n tasks, every description and every state at every task
RECURSIVE ListsOfSize(_)
RECURSIVE TasksOfSize(_)
ListsOfSize(n) ==
  IF n = 0 THEN {<<>>}
  ELSE UNION { { <<t>> \o rest : t \in TasksOfSize(k), rest \in ListsOfSize(n - k) }
               : k \in 1..n }
TasksOfSize(n) ==
  { [description |-> d, state |-> s, subtasks |-> subtasks] :
      d \in Descriptions, s \in TaskState, subtasks \in ListsOfSize(n - 1) }

\* the lists of at most n tasks
TaskLists(n) == UNION { ListsOfSize(k) : k \in 0..n }

InitList ==
  /\ held \in TaskLists(MaxNodes)
  /\ before = held
  /\ disk = NoFile
  /\ op = "idle"
  /\ arg_id = <<>>
  /\ arg_state = NoState
  /\ ret = Returned(FALSE, <<>>)
  /\ pc = <<>>
  /\ local = <<>>
  /\ call = <<>>
  /\ base = NoFile
  /\ rounds = 0
  /\ fs = NoFiles
  /\ who = NoOne
  /\ enumerated = {}

\* task_list.get_task_by_id(task_id)
GetTaskById ==
  \E task_id \in TaskIds :
    /\ op = "idle"
    /\ op' = "get_task_by_id"
    /\ arg_id' = task_id
    /\ ret' = Found(TaskList_get_task_by_id(held, task_id))
    /\ UNCHANGED <<disk, held, arg_state, before, concVars, storeVars>>

\* task_list.save(user_id, session_id)
Save ==
  /\ op = "idle"
  /\ op' = "save"
  /\ disk' = TaskList_save(held)
  /\ ret' = Returned(TRUE, <<>>)
  /\ UNCHANGED <<held, arg_id, arg_state, before, concVars, storeVars>>

\* TaskList.load(user_id, session_id) of the record just saved
Load ==
  /\ op = "save"
  /\ op' = "load"
  /\ before' = held
  /\ held' = TaskList_load(disk).tasks
  /\ ret' = Returned(~TaskList_load(disk).raised, <<>>)
  /\ UNCHANGED <<disk, arg_id, arg_state, concVars, storeVars>>

\* task_list.to_markdown(): the task lines of the text
ToMarkdown ==
  /\ op = "idle"
  /\ op' = "to_markdown"
  /\ enumerated' = TaskList_to_markdown(held)
  /\ ret' = Returned(TRUE, <<>>)
  /\ UNCHANGED <<disk, held, arg_id, arg_state, before, concVars, fs, who>>

NextList ==
  \/ GetTaskById
  \/ Save
  \/ Load
  \/ ToMarkdown

SpecList == InitList /\ [][NextList]_vars

-----------------------------------------------------------------------------
(* Two tool calls at a time on the same identity.  server.py takes no lock *)
(* and keeps no list between calls: a call reads the file (TaskList.load), *)
(* changes its own list, opens the file for writing, which empties it, and *)
(* writes the document (TaskList.save).                                    *)

Procs == {1, 2}

\* the task ids the concurrent calls pass
ConcIds == { <<"1">>, <<"2">> }

NoCall == [tool |-> "none", id |-> <<>>, description |-> "a", state |-> "PENDING"]

ConcCalls ==
  { [tool |-> "add_task", id |-> <<>>, description |-> d, state |-> "PENDING"] :
      d \in Descriptions }
  \cup { [tool |-> "add_subtask", id |-> i, description |-> d, state |-> "PENDING"] :
           i \in ConcIds, d \in Descriptions }
  \cup { [tool |-> "update_task_state", id |-> i, description |-> "a", state |-> st] :
           i \in ConcIds, st \in UpdateStates }
  \cup { [tool |-> "delete_task", id |-> i, description |-> "a", state |-> "PENDING"] :
           i \in ConcIds }
  \cup { [tool |-> "get_tasks", id |-> <<>>, description |-> "a", state |-> "PENDING"] }

\* what a tool does to the list it loaded
RunTool(c, task_list) ==
  CASE c.tool = "add_task" -> add_task(task_list, c.description)
    [] c.tool = "add_subtask" -> add_subtask(task_list, c.id, c.description)
    [] c.tool = "update_task_state" -> update_task_state(task_list, c.id, c.state)
    [] c.tool = "delete_task" -> delete_task(task_list, c.id)
    [] OTHER -> [tasks |-> task_list, saved |-> FALSE, ret |-> Returned(TRUE, <<>>)]

InitConc ==
  /\ disk = NoFile
  /\ held = <<>>
  /\ op = "idle"
  /\ arg_id = <<>>
  /\ arg_state = NoState
  /\ ret = Returned(FALSE, <<>>)
  /\ before = <<>>
  /\ pc = [p \in Procs |-> "idle"]
  /\ local = [p \in Procs |-> <<>>]
  /\ call = [p \in Procs |-> NoCall]
  /\ base = NoFile
  /\ rounds = 0
  /\ fs = NoFiles
  /\ who = NoOne
  /\ enumerated = {}

\* two requests arrive
Begin ==
  /\ \A p \in Procs : pc[p] = "idle"
  /\ rounds < MaxRounds
  /\ \E c1 \in ConcCalls, c2 \in ConcCalls :
       call' = [p \in Procs |-> IF p = 1 THEN c1 ELSE c2]
  /\ pc' = [p \in Procs |-> "load"]
  /\ local' = [p \in Procs |-> <<>>]
  /\ base' = disk
  /\ rounds' = rounds + 1
  /\ UNCHANGED <<callVars, storeVars>>

\* TaskList.load and the change of the loaded list; json.load raises when the
\* file holds no complete document, and the call ends with that error
LoadStep(p) ==
  /\ pc[p] = "load"
  /\ LET l == TaskList_load(disk)
         r == RunTool(call[p], l.tasks)
     IN IF l.raised
        THEN /\ pc' = [pc EXCEPT ![p] = "raised"]
             /\ UNCHANGED local
        ELSE /\ pc' = [pc EXCEPT ![p] = IF r.saved THEN "open" ELSE "done"]
             /\ local' = [local EXCEPT ![p] = r.tasks]
  /\ UNCHANGED <<callVars, call, base, rounds, storeVars>>

\* open(file_path, "w") of TaskList.save, models.py:244
OpenStep(p) ==
  /\ pc[p] = "open"
  /\ disk' = Truncated
  /\ pc' = [pc EXCEPT ![p] = "write"]
  /\ UNCHANGED <<held, op, arg_id, arg_state, ret, before, local, call, base, rounds, storeVars>>

\* f.write and the close of TaskList.save, models.py:246-247, and the return
\* of the tool.  The document goes to the start of the file: over a document
\* that another call wrote since the open, it leaves that one's tail behind
\* when it is the shorter.
WriteStep(p) ==
  /\ pc[p] = "write"
  /\ disk' \in IF disk.kind = "truncated"
               THEN {TaskList_save(local[p])}
               ELSE {TaskList_save(local[p]), Garbage}
  /\ pc' = [pc EXCEPT ![p] = "done"]
  /\ UNCHANGED <<held, op, arg_id, arg_state, ret, before, local, call, base, rounds, storeVars>>

\* both calls are over
Finish ==
  /\ \A p \in Procs : pc[p] \in {"done", "raised"}
  /\ pc' = [p \in Procs |-> "idle"]
  /\ UNCHANGED <<callVars, local, call, base, rounds, storeVars>>

NextConc ==
  \/ Begin
  \/ \E p \in Procs : LoadStep(p)
  \/ \E p \in Procs : OpenStep(p)
  \/ \E p \in Procs : WriteStep(p)
  \/ Finish

SpecConc == InitConc /\ [][NextConc]_vars

-----------------------------------------------------------------------------
(* The tools called for any identity: each loads the record of the         *)
(* (user_id, session_id) of its request, changes the list and saves it     *)
(* under the same identity (server.py:38-47 and alike).                    *)

\* the largest number of tasks the records hold together
MaxStored == 2

\* records that were not written by TaskList.save: an empty file, a text
\* that is no JSON, the JSON documents {} and {"todo": []}, a task without
\* its state and a task with a state that is none of the four
FoundRecords ==
  { Truncated, Garbage,
    [kind |-> "json", data |-> [k \in {} |-> <<>>]],
    [kind |-> "json", data |-> [todo |-> <<>>]],
    [kind |-> "json", data |-> [tasks |-> << [description |-> "a"] >>]],
    [kind |-> "json",
     data |-> [tasks |-> << [description |-> "a", state |-> "done",
                             subtasks |-> [tasks |-> <<>>]] >>]] }

\* the paths of the task_list.json files
TaskListPaths == { task_list_path(u, s) : u \in UserIds, s \in SessionIds }

\* the number of tasks in the records that load
RECURSIVE StoredNodes(_, _)
StoredNodes(f, paths) ==
  IF paths = {} THEN 0
  ELSE LET path == CHOOSE x \in paths : TRUE
       IN NodeCount(TaskList_load(f.files[path]).tasks)
          + StoredNodes(f, paths \ {path})

InitIdentity ==
  /\ disk = NoFile
  /\ held = <<>>
  /\ op = "idle"
  /\ arg_id = <<>>
  /\ arg_state = NoState
  /\ ret = Returned(FALSE, <<>>)
  /\ before = <<>>
  /\ pc = <<>>
  /\ local = <<>>
  /\ call = <<>>
  /\ base = NoFile
  /\ rounds = 0
  /\ fs \in {NoFiles}
            \cup { WriteFile(NoFiles, path, record) :
                     path \in TaskListPaths, record \in FoundRecords }
  /\ who = NoOne
  /\ enumerated = {}

\* a tool called for (user_id, session_id): TaskList.load raises when the
\* record does not load, and the tool ends with that error
ToolFor(user_id, session_id, c) ==
  LET path == task_list_path(user_id, session_id)
      l == TaskList_load(fs.files[path])
      r == RunTool(c, l.tasks)
  IN /\ op = "idle"
     /\ c.tool \in {"add_task", "add_subtask"} => StoredNodes(fs, TaskListPaths) < MaxStored
     /\ op' = c.tool
     /\ arg_id' = c.id
     /\ arg_state' = IF c.tool = "update_task_state" THEN StateValue(c.state)
                     ELSE NoState
     /\ who' = <<user_id, session_id>>
     /\ IF l.raised
        THEN /\ held' = <<>>
             /\ ret' = Raised
             /\ fs' = fs
        ELSE /\ held' = r.tasks
             /\ ret' = r.ret
             /\ fs' = IF r.saved THEN WriteFile(fs, path, TaskList_save(r.tasks))
                                 ELSE fs
     /\ UNCHANGED <<disk, before, concVars, enumerated>>

NextIdentity ==
  \/ Return
  \/ \E user_id \in UserIds, session_id \in SessionIds, c \in ConcCalls :
       ToolFor(user_id, session_id, c)

SpecIdentity == InitIdentity /\ [][NextIdentity]_vars

-----------------------------------------------------------------------------
(* The Task and TaskList of mcp_planning/task.py and task_list.py: a task  *)
(* has an id of its own (a uuid), a description, a state and a list of     *)
(* subtasks.  A caller holds a TaskList and calls its methods and those of *)
(* its tasks.                                                              *)

\* the paths of the tasks of a tree, depth first, a task before its subtasks
RECURSIVE DfsPaths(_, _, _)
DfsPaths(tasks, pos, prefix) ==
  IF pos > Len(tasks) THEN <<>>
  ELSE << prefix \o <<pos>> >>
       \o DfsPaths(tasks[pos].subtasks, 1, prefix \o <<pos>>)
       \o DfsPaths(tasks, pos + 1, prefix)

\* the values uuid4 gives
Uuids == { <<"u", "1">>, <<"u", "2">>, <<"u", "3">> }

\* the ids of the tasks of a list, at every depth
RECURSIVE IdsOf(_)
IdsOf(tasks) ==
  UNION { {tasks[i].id} \cup IdsOf(tasks[i].subtasks) : i \in 1..Len(tasks) }

\* Task(id=str(uuid4()), description=description), task.py:8-13
Planning_Task(id, description) ==
  [id |-> id, description |-> description, state |-> "PENDING", subtasks |-> <<>>]

\* TaskList.add_task, task_list.py:16-20, and Task.add_subtask,
\* task.py:18-22, on the list a path leads to
Planning_add_task(tasks, path, id, description) ==
  WithListAt(tasks, path, Append(ListAt(tasks, path), Planning_Task(id, description)))

\* Task.mark_in_progress, mark_completed, mark_failed, task.py:24-34
Planning_mark(tasks, path, state) ==
  WithListAt(tasks, Front(path),
             [ListAt(tasks, Front(path)) EXCEPT ![path[Len(path)]].state = state])

\* the positions of a list whose task is in a state, in the order of the list
RECURSIVE PositionsInState(_, _, _)
PositionsInState(list, pos, state) ==
  IF pos > Len(list) THEN <<>>
  ELSE (IF list[pos].state = state THEN <<pos>> ELSE <<>>)
       \o PositionsInState(list, pos + 1, state)

\* TaskList.get_tasks_by_state, task_list.py:37-39, and
\* Task.get_subtasks_by_state, task.py:36-38, on the list a path leads to:
\* the tasks of that list that are in the state, each given as its path
get_tasks_by_state(tasks, path, state) ==
  LET positions == PositionsInState(ListAt(tasks, path), 1, state)
  IN [k \in 1..Len(positions) |-> Append(path, positions[k])]

InitPlanning ==
  /\ disk = NoFile
  /\ held = <<>>
  /\ op = "idle"
  /\ arg_id = <<>>
  /\ arg_state = NoState
  /\ ret = Returned(FALSE, <<>>)
  /\ before = <<>>
  /\ pc = <<>>
  /\ local = <<>>
  /\ call = <<>>
  /\ base = NoFile
  /\ rounds = 0
  /\ fs = NoFiles
  /\ who = NoOne
  /\ enumerated = {}

\* the paths of the tasks of the list held, and the empty path for the list
HeldPaths ==
  LET paths == DfsPaths(held, 1, <<>>)
  IN { paths[i] : i \in 1..Len(paths) }

\* task_list.add_task(description), or task.add_subtask(description) for a
\* task of the list
PlanningAdd ==
  \E path \in HeldPaths \cup { <<>> }, description \in Descriptions,
     id \in Uuids \ IdsOf(held) :
    /\ op = "idle"
    /\ op' = IF path = <<>> THEN "add_task" ELSE "add_subtask"
    /\ held' = Planning_add_task(held, path, id, description)
    /\ ret' = [Returned(TRUE, id) EXCEPT !.path = path]
    /\ UNCHANGED <<disk, arg_id, arg_state, before, concVars, storeVars>>

\* task.mark_in_progress(), task.mark_completed() or task.mark_failed()
PlanningMark ==
  \E path \in HeldPaths, state \in {"IN_PROGRESS", "COMPLETED", "FAILED"} :
    /\ op = "idle"
    /\ op' = "mark"
    /\ held' = Planning_mark(held, path, state)
    /\ ret' = [Returned(TRUE, <<>>) EXCEPT !.path = path]
    /\ UNCHANGED <<disk, arg_id, arg_state, before, concVars, storeVars>>

\* task_list.get_tasks_by_state(state), or task.get_subtasks_by_state(state)
\* for a task of the list
PlanningFilter ==
  \E path \in HeldPaths \cup { <<>> }, state \in TaskState :
    /\ op = "idle"
    /\ op' = IF path = <<>> THEN "get_tasks_by_state" ELSE "get_subtasks_by_state"
    /\ arg_state' = state
    /\ ret' = [Returned(TRUE, <<>>) EXCEPT !.path = path]
    /\ enumerated' = get_tasks_by_state(held, path, state)
    /\ UNCHANGED <<disk, held, arg_id, before, concVars, fs, who>>

\* the call is over; the caller keeps its list
PlanningReturn ==
  /\ op # "idle"
  /\ op' = "idle"
  /\ arg_id' = <<>>
  /\ arg_state' = NoState
  /\ ret' = Returned(FALSE, <<>>)
  /\ enumerated' = {}
  /\ UNCHANGED <<disk, held, before, concVars, fs, who>>

NextPlanning ==
  \/ PlanningAdd
  \/ PlanningMark
  \/ PlanningFilter
  \/ PlanningReturn

SpecPlanning == InitPlanning /\ [][NextPlanning]_vars

-----------------------------------------------------------------------------
(* The Storage of mcp_planning/storage.py: the task lists of the users'    *)
(* sessions, each in the file tasks.json of the directory of its session.  *)
(* A caller calls its methods one after the other.                         *)

\* TaskList.model_dump_json, storage.py:36: the document of a list, the
\* state of a task written as its value
RECURSIVE model_dump(_)
model_dump(tasks) ==
  [i \in 1..Len(tasks) |->
     [id |-> tasks[i].id,
      description |-> tasks[i].description,
      state |-> StateValue(tasks[i].state),
      subtasks |-> model_dump(tasks[i].subtasks)]]

model_dump_json(tasks) == [kind |-> "json", data |-> [tasks |-> model_dump(tasks)]]

\* TaskList.model_validate, storage.py:47: the list of a document, an empty
\* one when the document has no "tasks" (task_list.py:11)
RECURSIVE validate_tasks(_)
validate_tasks(data) ==
  [i \in 1..Len(data) |->
     [id |-> data[i].id,
      description |-> data[i].description,
      state |-> TaskStateOf(data[i].state),
      subtasks |-> validate_tasks(data[i].subtasks)]]

model_validate(data) ==
  IF "tasks" \in DOMAIN data THEN validate_tasks(data.tasks) ELSE <<>>

\* the task lists the callers save
SavedLists ==
  { <<>>,
    << Planning_Task(<<"u", "1">>, "a") >>,
    << [Planning_Task(<<"u", "1">>, "a") EXCEPT
          !.state = "COMPLETED",
          !.subtasks = << Planning_Task(<<"u", "2">>, "b") >>] >> }

\* what a method of Storage gives: the files after it, whether it returned
\* something other than None or False, and the list it returned
StorageResult(f, ok, tasks) == [fs |-> f, ok |-> ok, tasks |-> tasks]

\* Storage.save_task_list, storage.py:29-36
save_task_list(f, task_list, user_id, session_id) ==
  StorageResult(WriteFile(f, get_task_file_path(user_id, session_id),
                          model_dump_json(task_list)),
                FALSE, <<>>)

\* Storage.load_task_list, storage.py:38-47: None when there is no file
load_task_list(f, user_id, session_id) ==
  LET file_path == get_task_file_path(user_id, session_id)
  IN IF ~Exists(f, file_path) THEN StorageResult(f, FALSE, <<>>)
     ELSE StorageResult(f, TRUE, model_validate(f.files[file_path].data))

\* Storage.delete_task_list that unlinks whatever is there
delete_task_list_NoExistsCheck(f, user_id, session_id) ==
  LET file_path == get_task_file_path(user_id, session_id)
  IN StorageResult([f EXCEPT !.files[file_path] = NoFile], TRUE, <<>>)

\* Storage.delete_task_list, storage.py:49-57: the file is unlinked, the
\* directories stay
delete_task_list(f, user_id, session_id) ==
  LET file_path == get_task_file_path(user_id, session_id)
  IN IF ~Exists(f, file_path) THEN StorageResult(f, FALSE, <<>>)
     ELSE StorageResult([f EXCEPT !.files[file_path] = NoFile], TRUE, <<>>)

\* Storage.get_or_create_task_list that saves the list it creates
get_or_create_task_list_Saving(f, user_id, session_id) ==
  LET loaded == load_task_list(f, user_id, session_id)
  IN IF ~loaded.ok
     THEN StorageResult(save_task_list(f, <<>>, user_id, session_id).fs, TRUE, <<>>)
     ELSE StorageResult(f, TRUE, loaded.tasks)

\* Storage.get_or_create_task_list, storage.py:59-64
get_or_create_task_list(f, user_id, session_id) ==
  LET loaded == load_task_list(f, user_id, session_id)
  IN IF ~loaded.ok THEN StorageResult(f, TRUE, <<>>)
     ELSE StorageResult(f, TRUE, loaded.tasks)

\* directory.iterdir() with is_dir(): the directories in a directory
SubDirs(f, directory) ==
  { d \in f.dirs : /\ Len(d) = Len(directory) + 1
                   /\ SubSeq(d, 1, Len(directory)) = directory }

\* session_dir.is_dir() and (session_dir / "tasks.json").exists(),
\* storage.py:74 and 82
HoldsTasks(f, session_dir) ==
  session_dir \in f.dirs /\ Exists(f, Append(session_dir, <<"tasks.json">>))

\* Storage.list_user_sessions, storage.py:66-74: the names of the
\* directories in base_dir / user_id that hold a tasks.json
list_user_sessions(f, user_id) ==
  LET user_dir == PathParts(user_id)
  IN IF user_dir \notin f.dirs THEN {}
     ELSE { session_dir[Len(session_dir)] :
              session_dir \in { d \in SubDirs(f, user_dir) : HoldsTasks(f, d) } }

\* Storage.list_users, storage.py:76-83: the names of the directories in
\* base_dir with a directory in them that holds a tasks.json
list_users(f) ==
  IF <<>> \notin f.dirs THEN {}
  ELSE { user_dir[Len(user_dir)] :
           user_dir \in { d \in SubDirs(f, <<>>) :
                            \E session_dir \in SubDirs(f, d) :
                              HoldsTasks(f, session_dir) } }

InitStore ==
  /\ disk = NoFile
  /\ held = <<>>
  /\ op = "idle"
  /\ arg_id = <<>>
  /\ arg_state = NoState
  /\ ret = Returned(FALSE, <<>>)
  /\ before = <<>>
  /\ pc = <<>>
  /\ local = <<>>
  /\ call = <<>>
  /\ base = NoFile
  /\ rounds = 0
  /\ fs = NoFiles
  /\ who = NoOne
  /\ enumerated = {}

\* a method of Storage called for (user_id, session_id), with the list it
\* was given
StorageCall(name, user_id, session_id, task_list, r) ==
  /\ op' = name
  /\ before' = task_list
  /\ who' = <<user_id, session_id>>
  /\ fs' = r.fs
  /\ ret' = Returned(r.ok, <<>>)
  /\ held' = r.tasks
  /\ enumerated' = {}
  /\ UNCHANGED <<disk, arg_id, arg_state, concVars>>

SaveTaskList ==
  \E user_id \in UserIds, session_id \in SessionIds, task_list \in SavedLists :
    StorageCall("save_task_list", user_id, session_id, task_list,
                save_task_list(fs, task_list, user_id, session_id))

LoadTaskList ==
  \E user_id \in UserIds, session_id \in SessionIds :
    StorageCall("load_task_list", user_id, session_id, <<>>,
                load_task_list(fs, user_id, session_id))

DeleteTaskList ==
  \E user_id \in UserIds, session_id \in SessionIds :
    StorageCall("delete_task_list", user_id, session_id, <<>>,
                delete_task_list(fs, user_id, session_id))

GetOrCreateTaskList ==
  \E user_id \in UserIds, session_id \in SessionIds :
    StorageCall("get_or_create_task_list", user_id, session_id, <<>>,
                get_or_create_task_list(fs, user_id, session_id))

ListUserSessions ==
  \E user_id \in UserIds :
    /\ op' = "list_user_sessions"
    /\ who' = <<user_id>>
    /\ ret' = Returned(TRUE, <<>>)
    /\ held' = <<>>
    /\ enumerated' = list_user_sessions(fs, user_id)
    /\ UNCHANGED <<disk, arg_id, arg_state, before, concVars, fs>>

ListUsers ==
  /\ op' = "list_users"
  /\ who' = NoOne
  /\ ret' = Returned(TRUE, <<>>)
  /\ held' = <<>>
  /\ enumerated' = list_users(fs)
  /\ UNCHANGED <<disk, arg_id, arg_state, before, concVars, fs>>

\* TaskList.load(user_id, session_id), models.py:251-286, of an identity
\* whose task_list.json nobody wrote
LoadList ==
  \E user_id \in UserIds, session_id \in SessionIds :
    LET l == TaskList_load(fs.files[task_list_path(user_id, session_id)])
    IN /\ op' = "TaskList.load"
       /\ who' = <<user_id, session_id>>
       /\ before' = <<>>
       /\ held' = l.tasks
       /\ ret' = IF l.raised THEN Raised ELSE Returned(TRUE, <<>>)
       /\ enumerated' = {}
       /\ UNCHANGED <<disk, arg_id, arg_state, concVars, fs>>

NextStore ==
  \/ LoadList
  \/ SaveTaskList
  \/ LoadTaskList
  \/ DeleteTaskList
  \/ GetOrCreateTaskList
  \/ ListUserSessions
  \/ ListUsers

SpecStore == InitStore /\ [][NextStore]_vars

-----------------------------------------------------------------------------
(* Task.__eq__ and TaskList.__eq__, models.py:113-136 and 307-321, called  *)
(* on the tasks of a list and on two lists.  The parent of a task is the   *)
(* list it is in and its parent_task the task above it: both are given by  *)
(* the path of the task in its list.                                       *)

\* the identifier of a path: its 1-based positions joined by dots
PathId(path) == Join([i \in 1..Len(path) |-> Str(path[i])])

\* the states of the tasks of a tree
StatesOf(tasks) ==
  LET paths == DfsPaths(tasks, 1, <<>>)
  IN { NodeAt(tasks, paths[i]).state : i \in 1..Len(paths) }

\* a list with the task at a path given another description or state
Relabelled(tasks, path, description, state) ==
  WithListAt(tasks, Front(path),
             [ListAt(tasks, Front(path)) EXCEPT
                ![path[Len(path)]].description = description,
                ![path[Len(path)]].state = state])

\* the lists a list is compared with: itself, a copy that differs in one
\* task, and the lists of one task
ComparedWith(tasks) ==
  LET paths == DfsPaths(tasks, 1, <<>>)
  IN {tasks}
     \cup { Relabelled(tasks, paths[i], d, NodeAt(tasks, paths[i]).state) :
              i \in 1..Len(paths), d \in Descriptions }
     \cup { Relabelled(tasks, paths[i], NodeAt(tasks, paths[i]).description, st) :
              i \in 1..Len(paths), st \in UpdateStates }
     \cup TaskLists(1)

\* the lists of at most MaxNodes tasks, each task in one of two states
InitEqual ==
  /\ held \in { tasks \in TaskLists(MaxNodes) : StatesOf(tasks) \subseteq UpdateStates }
  /\ before = <<>>
  /\ disk = NoFile
  /\ op = "idle"
  /\ arg_id = <<>>
  /\ arg_state = NoState
  /\ ret = Returned(FALSE, <<>>)
  /\ pc = <<>>
  /\ local = <<>>
  /\ call = <<>>
  /\ base = NoFile
  /\ rounds = 0
  /\ fs = NoFiles
  /\ who = NoOne
  /\ enumerated = {}

\* task_list == other, for two lists
CompareLists ==
  \E other \in ComparedWith(held) :
    /\ op = "idle"
    /\ op' = "TaskList.__eq__"
    /\ before' = other
    /\ ret' = Returned(TaskListEq(held, other), <<>>)
    /\ UNCHANGED <<disk, held, arg_id, arg_state, concVars, storeVars>>

\* task == other, for two tasks of a list
CompareTasks ==
  \E path \in HeldPaths, other \in HeldPaths :
    /\ op = "idle"
    /\ op' = "Task.__eq__"
    /\ before' = held
    /\ arg_id' = PathId(path)
    /\ ret' = Returned(TaskEq(NodeAt(held, path), NodeAt(held, other)), PathId(other))
    /\ UNCHANGED <<disk, held, arg_state, concVars, storeVars>>

NextEqual ==
  \/ CompareLists
  \/ CompareTasks

SpecEqual == InitEqual /\ [][NextEqual]_vars

-----------------------------------------------------------------------------
(* TaskList.update_task_state called once on a list of any shape, with the *)
(* tasks in any of the four states.                                        *)

\* an identifier that denotes no task of the lists
NoSuchId == <<"9">>

InitUpdate ==
  /\ held \in TaskLists(MaxNodes)
  /\ before = held
  /\ disk = NoFile
  /\ op = "idle"
  /\ arg_id = <<>>
  /\ arg_state = NoState
  /\ ret = Returned(FALSE, <<>>)
  /\ pc = <<>>
  /\ local = <<>>
  /\ call = <<>>
  /\ base = NoFile
  /\ rounds = 0
  /\ fs = NoFiles
  /\ who = NoOne
  /\ enumerated = {}

\* task_list.update_task_state(task_id, state), with the identifier of a
\* task of the list or one of none
ListUpdate ==
  \E task_id \in { PathId(path) : path \in HeldPaths } \cup { NoSuchId },
     state \in TaskState :
    LET r == TaskList_update_task_state(held, task_id, state)
    IN /\ op = "idle"
       /\ op' = "TaskList.update_task_state"
       /\ arg_id' = task_id
       /\ arg_state' = state
       /\ held' = r.tasks
       /\ ret' = Returned(r.ret, <<>>)
       /\ UNCHANGED <<disk, before, concVars, storeVars>>

NextUpdate == ListUpdate

SpecUpdate == InitUpdate /\ [][NextUpdate]_vars

-----------------------------------------------------------------------------
(* TaskList.add_task, Task.add_task and the two __getitem__ called once on *)
(* a list of any shape.                                                    *)

\* the int keys the callers index with
IndexKeys == (0 - 2)..(MaxNodes + 1)

\* task_list.add_task(description), or task.add_task(description) for a task
\* of the list (models.py:29-33, 157-161)
ListAdd ==
  \E path \in HeldPaths \cup { <<>> }, description \in Descriptions :
    /\ op = "idle"
    /\ NodeCount(held) < MaxNodes
    /\ op' = IF path = <<>> THEN "TaskList.add_task" ELSE "Task.add_task"
    /\ arg_id' = PathId(path)
    /\ before' = held
    /\ held' = TaskList_add_task(held, path, description)
    /\ ret' = [Returned(TRUE, <<>>) EXCEPT
                 !.path = Append(path, Len(ListAt(held', path)))]
    /\ UNCHANGED <<disk, arg_state, concVars, storeVars>>

\* task_list[key], or task[key] for a task of the list, with an int key; the
\* list that is indexed is kept
ListIndex ==
  \E path \in HeldPaths \cup { <<>> }, key \in IndexKeys :
    /\ op = "idle"
    /\ op' = IF path = <<>> THEN "TaskList.__getitem__" ELSE "Task.__getitem__"
    /\ arg_id' = StrInt(key)
    /\ before' = ListAt(held, path)
    /\ ret' = Found(TaskList_getitem(ListAt(held, path), key))
    /\ UNCHANGED <<disk, held, arg_state, concVars, storeVars>>

NextAccess ==
  \/ ListAdd
  \/ ListIndex

SpecAccess == InitEqual /\ [][NextAccess]_vars

-----------------------------------------------------------------------------
(* The objects of a tree, models.py:20-39 and 152-161.  A Task object has  *)
(* the fields description, state, parent (a TaskList or None) and subtasks *)
(* (a TaskList or None); a TaskList object has the fields tasks (a list of *)
(* Task objects) and parent_task (a Task or None).  Objects are numbered:  *)
(* the TaskList a caller holds is object 0, and the TaskList that          *)
(* model_post_init makes for a Task has the number of that Task.           *)

\* the reference None
NoObject == 0 - 1

\* the TaskList a caller holds
RootList == 0

\* the numbers of the Task objects
TaskObjects == 1..MaxNodes

\* TaskList(): no tasks, no parent_task
EmptyHeap ==
  [tasks |-> <<>>,
   lists |-> (RootList :> [tasks |-> <<>>, parent_task |-> NoObject])]

\* Task(description=..., parent=...) that leaves parent at its default
Heap_Task_NoParent(h, description, state, parent) ==
  LET t == CHOOSE x \in TaskObjects \ DOMAIN h.tasks :
             \A y \in TaskObjects \ DOMAIN h.tasks : x <= y
  IN [heap |-> [tasks |-> (t :> [description |-> description,
                                 state |-> state,
                                 parent |-> NoObject,
                                 subtasks |-> t]) @@ h.tasks,
                lists |-> (t :> [tasks |-> <<>>, parent_task |-> t]) @@ h.lists],
      task |-> t]

\* Task(description=..., state=..., parent=...) and its model_post_init,
\* models.py:20-37: a new Task object with the parent it is given, and a new
\* TaskList(parent_task=self) as its subtasks
Heap_Task(h, description, state, parent) ==
  LET t == CHOOSE x \in TaskObjects \ DOMAIN h.tasks :
             \A y \in TaskObjects \ DOMAIN h.tasks : x <= y
  IN [heap |-> [tasks |-> (t :> [description |-> description,
                                 state |-> state,
                                 parent |-> parent,
                                 subtasks |-> t]) @@ h.tasks,
                lists |-> (t :> [tasks |-> <<>>, parent_task |-> t]) @@ h.lists],
      task |-> t]

\* TaskList.add_task whose Task gets the list of the roots as its parent
Heap_add_task_RootParent(h, list, description) ==
  LET c == Heap_Task(h, description, "PENDING", RootList)
  IN [heap |-> [c.heap EXCEPT !.lists[list].tasks = Append(@, c.task)],
      task |-> c.task]

\* TaskList.add_task, models.py:157-161, on the TaskList object list
Heap_add_task(h, list, description) ==
  LET c == Heap_Task(h, description, "PENDING", list)
  IN [heap |-> [c.heap EXCEPT !.lists[list].tasks = Append(@, c.task)],
      task |-> c.task]

\* create_tasks(task_data_list, parent_list) of TaskList.load,
\* models.py:266-280, from position pos of task_data_list on
RECURSIVE Heap_create_tasks(_, _, _, _)
Heap_create_tasks(h, task_data_list, pos, parent_list) ==
  IF pos > Len(task_data_list) THEN h
  ELSE LET task_data == task_data_list[pos]
           c == Heap_Task(h, task_data.description,
                          TaskStateOf(task_data.state), parent_list)
           appended == [c.heap EXCEPT !.lists[parent_list].tasks = Append(@, c.task)]
           below == IF HasSubtasks(task_data)
                    THEN Heap_create_tasks(appended, task_data.subtasks.tasks, 1,
                                           appended.tasks[c.task].subtasks)
                    ELSE appended
       IN Heap_create_tasks(below, task_data_list, pos + 1, parent_list)

\* TaskList.load, models.py:251-286, of a record that TaskList.save wrote
Heap_load(file) ==
  IF file.kind = "json" /\ "tasks" \in DOMAIN file.data
  THEN Heap_create_tasks(EmptyHeap, file.data.tasks, 1, RootList)
  ELSE EmptyHeap

\* the tasks of a TaskList object with their subtasks, as Task.__eq__,
\* to_dict and to_markdown walk them: down the fields tasks and subtasks
RECURSIVE TreeOf(_, _)
TreeOf(h, list) ==
  LET tasks == h.lists[list].tasks
  IN [i \in 1..Len(tasks) |->
        [description |-> h.tasks[tasks[i]].description,
         state |-> h.tasks[tasks[i]].state,
         subtasks |-> TreeOf(h, h.tasks[tasks[i]].subtasks)]]

\* the Task objects below a TaskList object
RECURSIVE TasksBelow(_, _)
TasksBelow(h, list) ==
  LET tasks == h.lists[list].tasks
  IN UNION { {tasks[i]} \cup TasksBelow(h, h.tasks[tasks[i]].subtasks) :
               i \in 1..Len(tasks) }

\* the Task objects below a TaskList object in the order the lists lead to
\* them, a task before its subtasks
RECURSIVE TasksInOrder(_, _, _)
TasksInOrder(h, list, pos) ==
  LET tasks == h.lists[list].tasks
  IN IF pos > Len(tasks) THEN <<>>
     ELSE <<tasks[pos]>> \o TasksInOrder(h, h.tasks[tasks[pos]].subtasks, 1)
          \o TasksInOrder(h, list, pos + 1)

\* the objects the caller's TaskList still leads to.  The program gives its
\* objects no numbers: they are numbered here in the order the lists lead to
\* them, which makes one heap of all that differ in the numbers only.  A
\* reference to an object the lists do not lead to becomes None.
Collected(h) ==
  LET order == TasksInOrder(h, RootList, 1)
      live == TasksBelow(h, RootList)
      Number(t) == IF t \in live
                   THEN CHOOSE k \in 1..Len(order) :
                          order[k] = t /\ \A j \in 1..(k - 1) : order[j] # t
                   ELSE NoObject
      ListNumber(l) == IF l = RootList THEN RootList ELSE Number(l)
      Task(t) == [h.tasks[t] EXCEPT !.parent = ListNumber(@),
                                    !.subtasks = ListNumber(@)]
      List(l) == [tasks |-> [i \in 1..Len(h.lists[l].tasks) |->
                               Number(h.lists[l].tasks[i])],
                  parent_task |-> Number(h.lists[l].parent_task)]
      OfNumber(k) == CHOOSE t \in live : Number(t) = k
  IN [tasks |-> [k \in { Number(t) : t \in live } |-> Task(OfNumber(k))],
      lists |-> [k \in { Number(t) : t \in live } \cup {RootList} |->
                   IF k = RootList THEN List(RootList)
                   ELSE List(h.tasks[OfNumber(k)].subtasks)]]

\* the Task object at a path below the caller's TaskList
RECURSIVE TaskAt(_, _, _)
TaskAt(h, list, path) ==
  LET t == h.lists[list].tasks[Head(path)]
  IN IF Len(path) = 1 THEN t ELSE TaskAt(h, h.tasks[t].subtasks, Tail(path))

\* Task.get_id, models.py:41-57, of a Task object
Heap_get_id(h, t, parent_id) ==
  LET parent == h.tasks[t].parent
  IN IF parent = NoObject THEN <<"1">>
     ELSE LET siblings == TreeOf(h, parent)
              self == [description |-> h.tasks[t].description,
                       state |-> h.tasks[t].state,
                       subtasks |-> TreeOf(h, h.tasks[t].subtasks)]
              i == FirstEqual(siblings, self)
          IN IF siblings = <<>> THEN <<"1">>
             ELSE IF i = 0 THEN <<"?">>
             ELSE IF parent_id # <<>> THEN parent_id \o <<".">> \o Str(i)
             ELSE Str(i)

\* TaskList.delete and Task.delete, models.py:59-81 and 199-233: the task the
\* identifier denotes is popped from the list it is in
Heap_delete(h, task_id) ==
  LET r == TaskList_delete(TreeOf(h, RootList), task_id)
      task == TaskList_get_task_by_id(TreeOf(h, RootList), task_id)
      list == IF Len(task.path) = 1 THEN RootList
              ELSE h.tasks[TaskAt(h, RootList, Front(task.path))].subtasks
      index == task.path[Len(task.path)] - 1
  IN IF r.ret
     THEN [heap |-> Collected([h EXCEPT !.lists[list].tasks = Pop(@, index)]),
           ret |-> TRUE]
     ELSE [heap |-> h, ret |-> FALSE]

\* delete_task, server.py:131-152: the task found is removed from the list
\* its field parent names, by parent.tasks.remove(task)
Heap_delete_task(h, task_id) ==
  LET task == TaskList_get_task_by_id(TreeOf(h, RootList), task_id)
  IN IF ~task.found THEN [heap |-> h, ret |-> FALSE]
     ELSE LET t == TaskAt(h, RootList, task.path)
              parent == IF h.tasks[t].parent = NoObject THEN RootList
                        ELSE h.tasks[t].parent
              self == [description |-> h.tasks[t].description,
                       state |-> h.tasks[t].state,
                       subtasks |-> TreeOf(h, h.tasks[t].subtasks)]
              i == FirstEqual(TreeOf(h, parent), self)
          IN IF i = 0 THEN [heap |-> h, ret |-> FALSE]
             ELSE [heap |-> Collected([h EXCEPT !.lists[parent].tasks = Pop(@, i - 1)]),
                   ret |-> TRUE]

\* the identifiers of the tasks of the caller's list
HeapIds ==
  LET paths == DfsPaths(TreeOf(held, RootList), 1, <<>>)
  IN { PathId(paths[i]) : i \in 1..Len(paths) }

InitHeap ==
  /\ held = EmptyHeap
  /\ before = <<>>
  /\ disk = NoFile
  /\ op = "idle"
  /\ arg_id = <<>>
  /\ arg_state = NoState
  /\ ret = Returned(FALSE, <<>>)
  /\ pc = <<>>
  /\ local = <<>>
  /\ call = <<>>
  /\ base = NoFile
  /\ rounds = 0
  /\ fs = NoFiles
  /\ who = NoOne
  /\ enumerated = {}

\* The caller saves the list after every change, as the tools do
\* (server.py:44, 83, 108, 143, 149).

\* task_list.add_task(description), or task.add_task(description) and the
\* add of add_subtask (server.py:76-80) for a task of the list
HeapAdd ==
  \E list \in DOMAIN held.lists, description \in Descriptions :
    LET r == Heap_add_task(held, list, description)
    IN /\ Cardinality(DOMAIN held.tasks) < MaxNodes
       /\ op' = "add_task"
       /\ arg_id' = <<>>
       /\ arg_state' = NoState
       /\ held' = Collected(r.heap)
       /\ ret' = Returned(TRUE, Heap_get_id(r.heap, r.task, <<>>))
       /\ disk' = TaskList_save(TreeOf(held', RootList))
       /\ UNCHANGED <<before, concVars, storeVars>>

\* task_list.update_task_state(task_id, state)
HeapUpdate ==
  \E task_id \in HeapIds, state \in UpdateStates :
    LET t == TaskAt(held, RootList,
                    TaskList_get_task_by_id(TreeOf(held, RootList), task_id).path)
    IN /\ op' = "update_task_state"
       /\ arg_id' = task_id
       /\ arg_state' = state
       /\ held' = [held EXCEPT !.tasks[t].state = state]
       /\ ret' = Returned(TRUE, <<>>)
       /\ disk' = TaskList_save(TreeOf(held', RootList))
       /\ UNCHANGED <<before, concVars, storeVars>>

\* task_list.delete(task_id)
HeapDelete ==
  \E task_id \in HeapIds \cup { NoSuchId } :
    LET r == Heap_delete(held, task_id)
    IN /\ op' = "TaskList.delete"
       /\ arg_id' = task_id
       /\ arg_state' = NoState
       /\ held' = r.heap
       /\ ret' = Returned(r.ret, <<>>)
       /\ disk' = TaskList_save(TreeOf(held', RootList))
       /\ UNCHANGED <<before, concVars, storeVars>>

\* the removal of the delete_task tool
HeapDeleteTask ==
  \E task_id \in HeapIds \cup { NoSuchId } :
    LET r == Heap_delete_task(held, task_id)
    IN /\ op' = "delete_task"
       /\ arg_id' = task_id
       /\ arg_state' = NoState
       /\ held' = r.heap
       /\ ret' = Returned(r.ret, <<>>)
       /\ disk' = TaskList_save(TreeOf(held', RootList))
       /\ UNCHANGED <<before, concVars, storeVars>>

\* TaskList.load(...) in a later call: a list of new objects
HeapLoad ==
  /\ op' = "load"
  /\ arg_id' = <<>>
  /\ arg_state' = NoState
  /\ held' = Collected(Heap_load(disk))
  /\ ret' = Returned(TRUE, <<>>)
  /\ UNCHANGED <<disk, before, concVars, storeVars>>

NextHeap ==
  \/ HeapAdd
  \/ HeapUpdate
  \/ HeapDelete
  \/ HeapDeleteTask
  \/ HeapLoad

SpecHeap == InitHeap /\ [][NextHeap]_vars

-----------------------------------------------------------------------------
(* What the claims speak of *)

\* the task an identifier denotes: every segment a decimal number, the first
\* a position among the roots, each later one a position among the subtasks
\* of the task reached so far
RECURSIVE Walk(_, _)
Walk(tasks, positions) ==
  LET i == Head(positions)
  IN IF i <= 0 \/ i > Len(tasks) THEN None
     ELSE IF Len(positions) = 1 THEN [found |-> TRUE, path |-> <<i>>]
     ELSE LET r == Walk(tasks[i].subtasks, Tail(positions))
          IN IF r.found THEN [found |-> TRUE, path |-> <<i>> \o r.path] ELSE None

Denotes(tasks, task_id) ==
  LET segments == Split(task_id)
  IN IF task_id = <<>> \/ \E i \in 1..Len(segments) : ~ParseInt(segments[i]).ok
     THEN None
     ELSE Walk(tasks, [i \in 1..Len(segments) |-> ParseInt(segments[i]).val])

\* the list the last tool loaded
Loaded == TaskList_load(disk).tasks

MutatingTools == {"add_task", "add_subtask", "update_task_state", "delete_task"}

\* C1: every line of the rendered tree shows the identifier of its task's
\* position: the dot-joined 1-based path from the roots to the task
C1_PositionalIds ==
  LET lines == TaskList_to_markdown(held)
      paths == DfsPaths(held, 1, <<>>)
  IN /\ Len(lines) = Len(paths)
     /\ \A k \in 1..Len(lines) : lines[k].id = PathId(paths[k])

\* C2: add returns the identifier of the task it created: the number of roots
\* after the add, or the parent's identifier, a dot and the number of
\* subtasks of the parent after the add
C2_AddReturnsNewId ==
  /\ op = "add_task" => ~ret.raised /\ ret.id = Str(Len(held))
  /\ (op = "add_subtask" /\ ~ret.raised) =>
       LET parent == Denotes(held, arg_id)
       IN /\ parent.found
          /\ ret.id = arg_id \o <<".">> \o Str(Len(ListAt(held, parent.path)))

\* the tasks of a tree as a listing shows them: depth, description and state
Listing(tasks) ==
  LET paths == DfsPaths(tasks, 1, <<>>)
  IN [i \in 1..Len(paths) |->
        [depth |-> Len(paths[i]) - 1,
         description |-> NodeAt(tasks, paths[i]).description,
         state |-> NodeAt(tasks, paths[i]).state]]

\* the position of a path in the depth-first order of a tree
DfsIndex(tasks, path) ==
  LET paths == DfsPaths(tasks, 1, <<>>)
  IN CHOOSE i \in 1..Len(paths) : paths[i] = path

\* C3: a successful TaskList.delete of the k-th of n siblings leaves the
\* siblings before k where they were, makes the identifier ending in j
\* (k <= j < n) resolve to the former sibling j + 1 with its subtree, and
\* takes the deleted task and its subtree out of the listing
C3_DeleteRenumbers ==
  (op = "TaskList.delete" /\ ret.ok) =>
    LET segments == Split(arg_id)
        k == ParseInt(segments[Len(segments)]).val
        parent == IF Len(segments) = 1 THEN [found |-> TRUE, path |-> <<>>]
                  ELSE Denotes(Loaded, Join(Front(segments)))
        p == parent.path
        was == ListAt(Loaded, p)
        now == ListAt(held, p)
        n == Len(was)
        SiblingId(j) == Join(Append(Front(segments), Str(j)))
        listed == Listing(Loaded)
        m == DfsIndex(Loaded, Append(p, k))
        size == 1 + NodeCount(was[k].subtasks)
    IN /\ parent.found
       /\ 1 <= k /\ k <= n
       /\ Len(now) = n - 1
       /\ held = WithListAt(Loaded, p, now)
       /\ \A j \in 1..(n - 1) :
            LET r == TaskList_get_task_by_id(held, SiblingId(j))
            IN /\ r.found
               /\ r.path = Append(p, j)
               /\ NodeAt(held, r.path) = IF j < k THEN was[j] ELSE was[j + 1]
       /\ Listing(held) = SubSeq(listed, 1, m - 1)
                          \o SubSeq(listed, m + size, Len(listed))

\* C3 happens: the first of several roots is deleted and the root that takes
\* its place brings its subtasks along
C3_Witness ==
  /\ op = "TaskList.delete" /\ ret.ok
  /\ arg_id = <<"1">>
  /\ Len(Loaded) >= 2
  /\ held # <<>> /\ held[1].subtasks # <<>>

\* C4: get_task_by_id returns the task the identifier denotes, and None when
\* the identifier is empty, has an empty or non-numeric segment, or a segment
\* that is no position at its level
C4_GetTaskById ==
  op = "get_task_by_id" =>
    /\ ~ret.raised
    /\ ret.ok = Denotes(held, arg_id).found
    /\ ret.path = Denotes(held, arg_id).path

C4_Witness ==
  /\ op = "get_task_by_id" /\ ret.ok
  /\ arg_id = <<"1", ".", "1", ".", "1">>
  /\ ret.path = <<1, 1, 1>>

\* the record after a tool has run alone on a record
Alone(file, c) ==
  LET r == RunTool(c, TaskList_load(file).tasks)
  IN IF r.saved THEN TaskList_save(r.tasks) ELSE file

\* C5: when two concurrent mutating tool calls have both returned, the
\* record is what running the one and then the other leaves
C5_Serialized ==
  (/\ \A p \in Procs : pc[p] = "done"
   /\ \A p \in Procs : call[p].tool \in MutatingTools
   /\ base.kind # "garbage") =>
    disk \in { Alone(Alone(base, call[1]), call[2]),
               Alone(Alone(base, call[2]), call[1]) }

\* C6: a load made while another call is between the open and the close of
\* its save returns a complete list
C6_LoadSeesCompleteTree ==
  [][\A p \in Procs :
       (/\ pc[p] = "load" /\ pc'[p] # "load"
        /\ \E q \in Procs \ {p} : pc[q] = "write") =>
         pc'[p] # "raised"]_vars

\* C7: when a mutating tool returns success, the record already holds the
\* list the tool produced: loading it yields that list
C7_WriteThrough ==
  (op \in MutatingTools /\ ~ret.raised /\ ret.ok) =>
    /\ disk.kind = "json"
    /\ TaskList_load(disk) = [raised |-> FALSE, tasks |-> held]

C7_Witness ==
  /\ op = "delete_task" /\ ret.ok
  /\ held # <<>> /\ held[1].subtasks # <<>>
  /\ disk = TaskList_save(held)

\* C8: loading the record that save wrote yields a list equal to the saved
\* one: descriptions, states and the order of the subtasks at every depth
C8_RoundTrip ==
  op = "load" =>
    /\ ret.ok
    /\ held = before
    /\ TaskListEq(held, before)

C8_Witness ==
  /\ op = "load"
  /\ Len(held) = 1 /\ held[1].state = "FAILED"
  /\ Len(held[1].subtasks) = 1 /\ held[1].subtasks[1].state = "IN_PROGRESS"
  /\ Len(held[1].subtasks[1].subtasks) = 1
  /\ held[1].subtasks[1].subtasks[1].state = "COMPLETED"

C10_NotFoundReturnsFalse ==
  [][(/\ op' \in {"update_task_state", "delete_task", "TaskList.delete"}
      /\ arg_state' \in {NoState} \cup { StateValue(st) : st \in TaskState }
      /\ ~Denotes(Loaded, arg_id').found) =>
       (ret' = Returned(FALSE, <<>>) /\ disk' = disk /\ held' = Loaded)]_vars

C10_Witness ==
  /\ op = "TaskList.delete" /\ ~ret.ok
  /\ arg_id = <<"0">>
  /\ Len(held) = 2

\* p is the beginning of q
IsPrefix(p, q) == Len(p) <= Len(q) /\ SubSeq(q, 1, Len(p)) = p

\* where the task at path q is once the task at path d is gone: the later
\* siblings of d, and the tasks below them, are one position up at d's depth
Moved(d, q) ==
  LET n == Len(d)
  IN IF Len(q) >= n /\ SubSeq(q, 1, n - 1) = Front(d) /\ q[n] > d[n]
     THEN [q EXCEPT ![n] = q[n] - 1]
     ELSE q

\* the paths of a tree as a set
PathSet(tasks) ==
  LET paths == DfsPaths(tasks, 1, <<>>)
  IN { paths[i] : i \in 1..Len(paths) }

\* C11: a successful TaskList.delete takes out the task its id denotes and
\* the tasks below it, and nothing else: every other task is still there,
\* with its description and state, with its subtasks (the parent of the
\* deleted task with one fewer), and in the order it had among its siblings
C11_DeleteFrame ==
  (op = "TaskList.delete" /\ ret.ok) =>
    LET d == Denotes(Loaded, arg_id)
        kept == { q \in PathSet(Loaded) : ~IsPrefix(d.path, q) }
    IN /\ d.found
       /\ PathSet(held) = { Moved(d.path, q) : q \in kept }
       /\ \A q \in kept :
            LET was == NodeAt(Loaded, q)
                now == NodeAt(held, Moved(d.path, q))
            IN /\ now.description = was.description
               /\ now.state = was.state
               /\ Len(now.subtasks) = IF q = Front(d.path)
                                      THEN Len(was.subtasks) - 1
                                      ELSE Len(was.subtasks)
       /\ \A q1, q2 \in kept :
            (Front(q1) = Front(q2) /\ q1[Len(q1)] < q2[Len(q2)]) =>
              LET m1 == Moved(d.path, q1)
                  m2 == Moved(d.path, q2)
              IN Front(m1) = Front(m2) /\ m1[Len(m1)] < m2[Len(m2)]

\* C11 happens: the first of two subtasks is deleted, its parent and its
\* sibling stay
C11_Witness ==
  /\ op = "TaskList.delete" /\ ret.ok
  /\ arg_id = <<"1", ".", "1">>
  /\ Len(Loaded) = 1 /\ Len(Loaded[1].subtasks) = 2
  /\ Loaded[1].subtasks[1] # Loaded[1].subtasks[2]
  /\ Len(held) = 1 /\ held[1].subtasks = << Loaded[1].subtasks[2] >>

\* the record of an identity
RecordOf(f, identity) == f.files[task_list_path(identity[1], identity[2])]

\* a list of task data as TaskList.to_dict writes it: every task with its
\* description, one of the four states and its subtasks in the same form
RECURSIVE IsTaskData(_)
IsTaskData(task_data_list) ==
  \A i \in 1..Len(task_data_list) :
    LET task_data == task_data_list[i]
    IN /\ DOMAIN task_data = {"description", "state", "subtasks"}
       /\ task_data.state \in {"pending", "in_progress", "completed", "failed"}
       /\ DOMAIN task_data.subtasks = {"tasks"}
       /\ IsTaskData(task_data.subtasks.tasks)

\* a record that exists and is no document of the form {"tasks": [...]}
Corrupt(record) ==
  /\ record.kind # "absent"
  /\ ~(/\ record.kind = "json"
       /\ DOMAIN record.data = {"tasks"}
       /\ IsTaskData(record.data.tasks))

\* C12: a load of a record that exists and is corrupt (no JSON, or JSON of
\* another form than {"tasks": [...]}) does not return an empty list in
\* place of the error
C12_CorruptLoadFails ==
  [][(op' = "get_tasks" /\ Corrupt(RecordOf(fs, who'))) =>
       ~(~ret'.raised /\ held' = <<>>)]_vars

\* C13: a load for an identity that has no record returns the empty list,
\* raises nothing and leaves the store as it is, so that the next load
\* finds the same
C13_EmptyLoad ==
  [][(op' = "get_tasks" /\ RecordOf(fs, who').kind = "absent") =>
       (/\ ret' = Returned(TRUE, <<>>)
        /\ held' = <<>>
        /\ fs' = fs)]_vars

\* C13 happens: a load for an identity without a record, while another
\* identity has one with a task in it
C13_Witness ==
  /\ op = "get_tasks" /\ ~ret.raised
  /\ who = << <<"a">>, <<"c">> >>
  /\ RecordOf(fs, who).kind = "absent"
  /\ held = <<>>
  /\ TaskList_load(RecordOf(fs, << <<"a", "/", "b">>, <<"b", "/", "c">> >>)).tasks # <<>>

\* C14: a tool called for one identity leaves the record of every other
\* identity as it was
C14_IdentityIsolation ==
  [][\A user_id \in UserIds, session_id \in SessionIds :
       (op' # "idle" /\ who' # <<user_id, session_id>>) =>
         RecordOf(fs', <<user_id, session_id>>) = RecordOf(fs, <<user_id, session_id>>)]_vars

\* C15: a listing with a state filter returns the tasks of the whole tree
\* that are in that state, at every depth, depth first in the order of the
\* tree (a task in the state is returned also when its parent is not), each
\* at its position in the whole tree
C15_FilterListing ==
  op = "get_tasks_by_state" =>
    LET paths == DfsPaths(held, 1, <<>>)
        InState(path) == NodeAt(held, path).state = arg_state
    IN enumerated = SelectSeq(paths, InState)

\* the line of the task at a path as the claim gives it: two spaces for
\* each level below the roots, the box checked for a completed task only,
\* the identifier of the position, the description
LineOf(tasks, path) ==
  LET task == NodeAt(tasks, path)
  IN [indent |-> 2 * (Len(path) - 1),
      checkbox |-> IF task.state = "COMPLETED" THEN "x" ELSE " ",
      id |-> PathId(path),
      description |-> task.description]

\* C16: the markdown of a list has one line for each task, depth first, and
\* the line of a task is its indent (two spaces times its depth), "- [x] "
\* when it is completed and "- [ ] " in the three other states, its
\* identifier, ": " and its description
C16_MarkdownLine ==
  LET paths == DfsPaths(held, 1, <<>>)
  IN TaskList_to_markdown(held) = [k \in 1..Len(paths) |-> LineOf(held, paths[k])]

\* C17: update_task_state with a state that is none of the four returns
\* false and leaves the list and the record as they were, and every task of
\* every list and of every record is in one of the four states
C17_InvalidStateRejected ==
  /\ [](StatesOf(held) \cup StatesOf(Loaded) \subseteq TaskState)
  /\ [][(/\ op' = "update_task_state"
          /\ arg_state' \notin { StateValue(st) : st \in TaskState }) =>
           (/\ ret' = Returned(FALSE, <<>>)
            /\ disk' = disk
            /\ held' = Loaded)]_vars

\* whether a record of an identity exists
RecordExists(f, user_id, session_id) ==
  Exists(f, get_task_file_path(user_id, session_id))

\* C18: list_user_sessions(u) gives exactly the sessions s for which a record
\* (u, s) exists, none for a user without records, and list_users() gives
\* exactly the users with at least one record
C18_EnumerationMatchesStore ==
  /\ op = "list_user_sessions" =>
       enumerated = { s \in SessionIds : RecordExists(fs, who[1], s) }
  /\ op = "list_users" =>
       enumerated = { u \in UserIds : \E s \in SessionIds : RecordExists(fs, u, s) }

\* C19: delete_task_list(u, s) returns True exactly when a record of (u, s)
\* existed; afterwards there is none and load_task_list(u, s) gives None;
\* when it returns False the store is as it was; called again at once for
\* the same identity it returns False
C19_DeleteTaskList ==
  [][op' = "delete_task_list" =>
       (/\ ret'.ok = RecordExists(fs, who'[1], who'[2])
        /\ ~ret'.raised
        /\ ~RecordExists(fs', who'[1], who'[2])
        /\ ~load_task_list(fs', who'[1], who'[2]).ok
        /\ ~ret'.ok => fs' = fs
        /\ (op = "delete_task_list" /\ who = who') => ~ret'.ok)]_vars

\* a record was deleted while another identity keeps its record, and a
\* delete returned False for an identity whose directory a save had made
C19_Witness ==
  /\ op = "delete_task_list"
  /\ \/ /\ ret.ok
        /\ \E u \in UserIds, s \in SessionIds : RecordExists(fs, u, s)
     \/ /\ ~ret.ok
        /\ get_user_session_dir(who[1], who[2]) \in fs.dirs

\* the tasks of a list as a set: each with its path, its description and its
\* state
Shape(tasks) ==
  LET paths == DfsPaths(tasks, 1, <<>>)
  IN { << paths[i], NodeAt(tasks, paths[i]).description,
          NodeAt(tasks, paths[i]).state >> : i \in 1..Len(paths) }

\* the two tasks of a comparison of tasks
Compared == Denotes(held, arg_id).found /\ Denotes(held, ret.id).found
Left == NodeAt(held, Denotes(held, arg_id).path)
Right == NodeAt(held, Denotes(held, ret.id).path)

\* C20: two tasks are equal exactly when they have the same description, the
\* same state and the same subtasks in the same places at every depth,
\* whatever list and whatever task they are in, and two lists are equal
\* exactly when they have the same tasks in the same places; the comparison
\* gives a result for every pair
C20_StructuralEquality ==
  /\ op = "Task.__eq__" =>
       /\ Compared
       /\ ~ret.raised
       /\ ret.ok <=> /\ Left.description = Right.description
                     /\ Left.state = Right.state
                     /\ Shape(Left.subtasks) = Shape(Right.subtasks)
  /\ op = "TaskList.__eq__" =>
       /\ ~ret.raised
       /\ ret.ok <=> Shape(held) = Shape(before)

\* two tasks at different depths (their parent and their parent_task
\* differ) compared equal, or two lists compared unequal that differ in a
\* subtask only
C20_Witness ==
  \/ /\ op = "Task.__eq__"
     /\ ret.ok
     /\ arg_id # ret.id
     /\ Len(Denotes(held, arg_id).path) # Len(Denotes(held, ret.id).path)
  \/ /\ op = "TaskList.__eq__"
     /\ ~ret.ok
     /\ Len(held) = Len(before)
     /\ \A i \in 1..Len(held) : TaskEq_Shallow(held[i], before[i])

\* C21: the markdown of a list without tasks is the header "# Task List",
\* nothing but empty lines after it and no task line
C21_EmptyRender ==
  (op = "get_tasks" /\ held = <<>>) =>
     /\ TaskList_to_markdown(held) = <<>>
     /\ Head(MarkdownHeader) = "# Task List"
     /\ \A i \in 2..Len(MarkdownHeader) : MarkdownHeader[i] = ""

\* get_tasks rendered the list of a record that holds no task any more
C21_Witness ==
  /\ op = "get_tasks"
  /\ held = <<>>
  /\ ~ret.raised
  /\ disk.kind = "json"

\* C22: for every list and every identifier that denotes a task of it, the
\* delete_task tool returns true and the list it saves is the list
\* TaskList.delete(task_id) leaves of the same list: the same tasks in the
\* same order
C22_DeleteTaskAsListDelete ==
  [][(op' = "delete_task" /\ Denotes(Loaded, arg_id').found) =>
       LET r == TaskList_delete(Loaded, arg_id')
       IN /\ r.ret
          /\ ret' = Returned(TRUE, <<>>)
          /\ held' = r.tasks
          /\ disk'.kind = "json"
          /\ TaskList_load(disk').tasks = r.tasks]_vars

\* C23: update_task_state with an identifier that denotes a task returns
\* true and sets the state of that task, whatever state it was in; every
\* task stays where it was with its description and its subtasks, and every
\* other task keeps its state
C23_UpdateFrame ==
  op = "TaskList.update_task_state" =>
    LET d == Denotes(before, arg_id)
    IN /\ ~ret.raised
       /\ ret.ok = d.found
       /\ PathSet(held) = PathSet(before)
       /\ \A q \in PathSet(before) :
            /\ NodeAt(held, q).description = NodeAt(before, q).description
            /\ NodeAt(held, q).state =
                 IF d.found /\ q = d.path THEN arg_state
                 ELSE NodeAt(before, q).state

\* a completed task with a subtask in another state was set back to pending
C23_Witness ==
  /\ op = "TaskList.update_task_state" /\ ret.ok
  /\ arg_id = <<"1">> /\ arg_state = "PENDING"
  /\ before[1].state = "COMPLETED"
  /\ before[1].subtasks # <<>>
  /\ before[1].subtasks[1].state = "FAILED"
  /\ held[1].state = "PENDING"

\* C24: add_task puts the new task last in its list, pending and without
\* subtasks; every task that was there is where it was, with its
\* description, state and subtasks, and its identifier finds it as before
C24_AddAppends ==
  op \in {"TaskList.add_task", "Task.add_task"} =>
    LET parent == IF arg_id = <<>> THEN <<>> ELSE Denotes(before, arg_id).path
        new == Append(parent, Len(ListAt(before, parent)) + 1)
    IN /\ ret.path = new
       /\ PathSet(held) = PathSet(before) \cup {new}
       /\ NodeAt(held, new).state = "PENDING"
       /\ NodeAt(held, new).subtasks = <<>>
       /\ NodeAt(held, new).description \in Descriptions
       /\ \A q \in PathSet(before) :
            /\ NodeAt(held, q).description = NodeAt(before, q).description
            /\ NodeAt(held, q).state = NodeAt(before, q).state
            /\ TaskList_get_task_by_id(before, PathId(q)) = [found |-> TRUE, path |-> q]
            /\ TaskList_get_task_by_id(held, PathId(q)) = [found |-> TRUE, path |-> q]

\* a task was added to a task that had a completed subtask
C24_Witness ==
  /\ op = "Task.add_task"
  /\ arg_id = <<"1">>
  /\ Len(before) = 1 /\ Len(before[1].subtasks) = 1
  /\ before[1].subtasks[1].state = "COMPLETED"
  /\ Len(held[1].subtasks) = 2
  /\ ret.path = <<1, 2>>

\* a path comes before another when it is a proper prefix of it (a task
\* before its subtasks) or when, where they first differ, its position is
\* the smaller one (a task and its subtasks before its later siblings)
Precedes(p, q) ==
  \/ Len(p) < Len(q) /\ IsPrefix(p, q)
  \/ \E k \in 1..Len(p) :
       /\ k <= Len(q)
       /\ SubSeq(p, 1, k - 1) = SubSeq(q, 1, k - 1)
       /\ p[k] < q[k]

\* C25: the markdown of a list has as many task lines as the list has tasks,
\* one for each task, a task before its subtasks and these before the next
\* sibling, siblings in the order of their list
C25_OneLinePerTask ==
  op = "to_markdown" =>
    LET paths == DfsPaths(held, 1, <<>>)
    IN /\ Len(enumerated) = NodeCount(held)
       /\ Len(paths) = NodeCount(held)
       /\ \A i, j \in 1..Len(paths) : i < j => Precedes(paths[i], paths[j])
       /\ \A k \in 1..Len(paths) :
            /\ enumerated[k].description = NodeAt(held, paths[k]).description
            /\ enumerated[k].indent = 2 * (Len(paths[k]) - 1)
            /\ enumerated[k].checkbox = "x" <=> NodeAt(held, paths[k]).state = "COMPLETED"

\* a list of a task with a subtask and a second root was rendered: three
\* lines, the subtask's between the roots'
C25_Witness ==
  /\ op = "to_markdown"
  /\ Len(held) = 2 /\ Len(held[1].subtasks) = 1
  /\ held[1].description # held[1].subtasks[1].description
  /\ [k \in 1..3 |-> enumerated[k].indent] = <<0, 2, 0>>

\* C26: for every list and every int k, task_list[k] gives what
\* get_task_by_id(str(k)) gives: the k-th task when k is from 1 to the number
\* of tasks, and None for every other k, 0 and the negative ones among them
C26_IndexAgreesWithLookup ==
  op \in {"TaskList.__getitem__", "Task.__getitem__"} =>
    LET k == ParseInt(arg_id).val
    IN /\ ~ret.raised
       /\ Found(TaskList_get_task_by_id(before, arg_id)) = ret
       /\ ret.ok <=> (1 <= k /\ k <= Len(before))
       /\ ret.ok => ret.path = <<k>>

\* the paths of the files that exist
Records(f) == { path \in FilePaths : Exists(f, path) }

\* C27: load_task_list, get_or_create_task_list and TaskList.load change no
\* file and no directory: the records, list_users() and
\* list_user_sessions(u) are after the load what they were before it, and an
\* identity without a record has none afterwards
C27_LoadNeverWrites ==
  [][op' \in {"load_task_list", "get_or_create_task_list", "TaskList.load"} =>
       /\ fs' = fs
       /\ Records(fs') = Records(fs)
       /\ list_users(fs') = list_users(fs)
       /\ \A u \in UserIds : list_user_sessions(fs', u) = list_user_sessions(fs, u)
       /\ ~ret'.raised]_vars

\* a list was created for an identity that has no record and no directory,
\* while another identity has a record
C27_Witness ==
  /\ op = "get_or_create_task_list"
  /\ held = <<>>
  /\ ~RecordExists(fs, who[1], who[2])
  /\ get_user_session_dir(who[1], who[2]) \notin fs.dirs
  /\ Records(fs) # {}

\* the places of a heap where a Task object is in a list: the list and the
\* position
Places(h) ==
  UNION { { <<l, i>> : i \in 1..Len(h.lists[l].tasks) } : l \in DOMAIN h.lists }

\* C28: every task in the tasks of a list has that list as its parent; the
\* subtasks of every task is a list with that task as its parent_task; no
\* Task object is in two lists or twice in one
C28_ParentsConsistent ==
  /\ \A place \in Places(held) :
       LET t == held.lists[place[1]].tasks[place[2]]
       IN /\ t \in DOMAIN held.tasks
          /\ held.tasks[t].parent = place[1]
  /\ \A t \in DOMAIN held.tasks :
       /\ held.tasks[t].subtasks \in DOMAIN held.lists
       /\ held.lists[held.tasks[t].subtasks].parent_task = t
  /\ \A p1, p2 \in Places(held) :
       held.lists[p1[1]].tasks[p1[2]] = held.lists[p2[1]].tasks[p2[2]] => p1 = p2

\* a list of three tasks at three depths, loaded from its record
C28_Witness ==
  /\ op = "load"
  /\ Cardinality(DOMAIN held.tasks) = 3
  /\ \E t \in DOMAIN held.tasks :
       /\ held.tasks[t].parent # RootList
       /\ held.tasks[held.lists[held.tasks[t].parent].parent_task].parent # RootList

\* C29: for every task of every list built by add_task, load, delete and
\* update_task_state, subtasks is a TaskList and not None, and get_id gives
\* an identifier and not "?", with or without the parent's identifier
C29_NoFallback ==
  \A t \in DOMAIN held.tasks :
    /\ held.tasks[t].subtasks # NoObject
    /\ held.tasks[t].subtasks \in DOMAIN held.lists
    /\ Heap_get_id(held, t, <<>>) # <<"?">>
    /\ Heap_get_id(held, t, <<"1">>) # <<"?">>

\* a subtask was added below a task that has an equal sibling in front of it
C29_Witness ==
  /\ op = "add_task"
  /\ Len(held.lists[RootList].tasks) = 2
  /\ \E t \in DOMAIN held.tasks :
       /\ held.tasks[t].parent # RootList
       /\ held.lists[held.tasks[t].parent].parent_task = held.lists[RootList].tasks[2]
       /\ ret.id = Heap_get_id(held, t, <<>>)
  /\ held.tasks[held.lists[RootList].tasks[1]].description =
       held.tasks[held.lists[RootList].tasks[2]].description

====
